---- MODULE Spec2Model ----
(***************************************************************************)
(* A model of the week-range parser of menu_parser.py (parse_weeks), of   *)
(* its caller parse_menu and of the command line entry point main.        *)
(*                                                                         *)
(* Text is a sequence of one-character strings.  The regular expression   *)
(* of parse_weeks is evaluated character by character, dates are built    *)
(* with the validity rules of datetime.date and printed as isoformat()    *)
(* prints them.                                                            *)
(***************************************************************************)
EXTENDS Integers, Sequences, FiniteSets, TLC

(***************************************************************************)
(* Bounds of the model.                                                    *)
(***************************************************************************)
\* number of pieces (matches or other text) an input text is made of
MaxMatches == 2
\* number of parse_weeks calls one run of the test harness makes
MaxCalls == 3
\* number of data rows of the table given to parse_menu
MaxRows == 2
\* number of weekday columns of the table given to parse_menu
MaxCols == 2
\* number of week menus of the menu data given to generate_ics_calendar and
\* find_menu_for_date
MaxWeeks == 2
\* number of entries of the holidays given to daily_menu_message.py and
\* regenerate_html_ics.py
MaxHolidays == 3
\* number of characters of a text given to normalize_text
MaxLen == 3

(***************************************************************************)
(* Characters and strings.                                                 *)
(***************************************************************************)
Digits == <<"0", "1", "2", "3", "4", "5", "6", "7", "8", "9">>

IsDigit(c) == \E n \in 1..Len(Digits) : Digits[n] = c

DigitVal(c) == (CHOOSE n \in 1..Len(Digits) : Digits[n] = c) - 1

\* int(s) for a string of decimal digits
RECURSIVE int(_)
int(s) ==
  IF Len(s) = 0 THEN 0
  ELSE 10 * int(SubSeq(s, 1, Len(s) - 1)) + DigitVal(s[Len(s)])

\* code point order of the characters an ISO date is made of: '-' < '0' .. '9'
Ord(c) == IF c = "-" THEN 45 ELSE 48 + DigitVal(c)

\* a <= b for two strings, as Python compares str values
RECURSIVE StrLeq(_, _)
StrLeq(a, b) ==
  IF Len(a) = 0 THEN TRUE
  ELSE IF Len(b) = 0 THEN FALSE
  ELSE IF Ord(a[1]) < Ord(b[1]) THEN TRUE
  ELSE IF Ord(a[1]) > Ord(b[1]) THEN FALSE
  ELSE StrLeq(Tail(a), Tail(b))

\* sep.join(parts)
RECURSIVE join(_, _)
join(sep, parts) ==
  IF Len(parts) = 0 THEN <<>>
  ELSE IF Len(parts) = 1 THEN parts[1]
  ELSE parts[1] \o sep \o join(sep, Tail(parts))

(***************************************************************************)
(* str.strip, str.upper, str.lower and normalize_text.                     *)
(***************************************************************************)
\* the characters str.strip() removes that the model writes
Whitespace == {" ", "\t"}

\* s without its leading characters that are in chars
RECURSIVE lstrip(_, _)
lstrip(s, chars) ==
  IF Len(s) > 0 /\ s[1] \in chars THEN lstrip(Tail(s), chars) ELSE s

\* s without its trailing characters that are in chars
RECURSIVE rstrip(_, _)
rstrip(s, chars) ==
  IF Len(s) > 0 /\ s[Len(s)] \in chars
  THEN rstrip(SubSeq(s, 1, Len(s) - 1), chars)
  ELSE s

\* s.strip(chars)
strip(s, chars) == rstrip(lstrip(s, chars), chars)

\* the letters of the model, lower case and upper case
LowerLetters ==
  <<"a", "b", "c", "d", "e", "f", "g", "h", "i", "j", "k", "l", "m",
    "n", "o", "p", "q", "r", "s", "t", "u", "v", "w", "x", "y", "z",
    "è">>
UpperLetters ==
  <<"A", "B", "C", "D", "E", "F", "G", "H", "I", "J", "K", "L", "M",
    "N", "O", "P", "Q", "R", "S", "T", "U", "V", "W", "X", "Y", "Z",
    "È">>

\* c.upper() and c.lower() for one character
upper_char(c) ==
  IF \E n \in 1..Len(LowerLetters) : LowerLetters[n] = c
  THEN UpperLetters[CHOOSE n \in 1..Len(LowerLetters) : LowerLetters[n] = c]
  ELSE c

lower_char(c) ==
  IF \E n \in 1..Len(UpperLetters) : UpperLetters[n] = c
  THEN LowerLetters[CHOOSE n \in 1..Len(UpperLetters) : UpperLetters[n] = c]
  ELSE c

upper(s) == [n \in 1..Len(s) |-> upper_char(s[n])]

lower(s) == [n \in 1..Len(s) |-> lower_char(s[n])]

\* line 15: text.strip("- ").strip()
strip_ends(s) == strip(strip(s, {"-", " "}), Whitespace)

\* lines 10-18
normalize_text(s) ==
  LET text == strip_ends(s)
  IN  IF Len(text) = 0 THEN text
      ELSE upper(SubSeq(text, 1, 1)) \o lower(SubSeq(text, 2, Len(text)))

(***************************************************************************)
(* parse_menu: the header row and the cells of the weekdays.               *)
(***************************************************************************)
None == <<"None">>

\* lines 61-66: the name of each column after the first, None for a header
\* cell without kids
header_days(header) ==
  [i \in 1..Len(header) |->
     IF Len(header[i]) > 0 THEN normalize_text(header[i][1].content) ELSE None]

\* lines 86-89: the normalized items of the kids of type list, in order
RECURSIVE cell_meals(_)
cell_meals(kids) ==
  IF Len(kids) = 0 THEN <<>>
  ELSE (IF kids[1].type = "list"
        THEN [n \in 1..Len(kids[1].items) |-> normalize_text(kids[1].items[n])]
        ELSE <<>>)
       \o cell_meals(Tail(kids))

\* an entry that keeps the first three meals only
day_entry_first_three(meals) ==
  [entrant |-> IF Len(meals) > 0 THEN meals[1] ELSE None,
   main    |-> IF Len(meals) > 1 THEN meals[2] ELSE None,
   dessert |-> IF Len(meals) > 2 THEN meals[3] ELSE None,
   raw     |-> IF Len(meals) > 3 THEN SubSeq(meals, 1, 3) ELSE meals]

\* lines 91-96
day_entry(meals) ==
  [entrant |-> IF Len(meals) > 0 THEN meals[1] ELSE None,
   main    |-> IF Len(meals) > 1 THEN meals[2] ELSE None,
   dessert |-> IF Len(meals) > 2 THEN meals[3] ELSE None,
   raw     |-> meals]

\* an iteration that adds an entry also for a cell without meals
add_day_always(acc, name, cell) ==
  IF name = None \/ Len(name) = 0 THEN acc
  ELSE [n \in DOMAIN acc \cup {name} |->
          IF n = name THEN day_entry(cell_meals(cell)) ELSE acc[n]]

\* lines 83-97: one iteration of the loop over the cells of a row
add_day(acc, name, cell) ==
  IF name = None \/ Len(name) = 0 THEN acc
  ELSE IF Len(cell_meals(cell)) = 0 THEN acc
  ELSE [n \in DOMAIN acc \cup {name} |->
          IF n = name THEN day_entry(cell_meals(cell)) ELSE acc[n]]

\* lines 81-97: week_menu["days"] after the cells 1..n of the row
RECURSIVE week_days(_, _, _)
week_days(days, cells, n) ==
  IF n = 0 THEN [name \in {} |-> None]
  ELSE add_day(week_days(days, cells, n - 1), days[n], cells[n])

(***************************************************************************)
(* The pattern  Del (\d{1,2}) al (\d{1,2})/(\d{2})  and re.findall.        *)
(***************************************************************************)
\* the literal in lower case
LitDel_lower == <<"d", "e", "l", " ">>

LitDel == <<"D", "e", "l", " ">>
LitAl == <<" ", "a", "l", " ">>
LitSlash == <<"/">>

\* the literal lit occurs in s at position i
HasLit(s, i, lit) ==
  /\ i + Len(lit) - 1 <= Len(s)
  /\ \A j \in 1..Len(lit) : s[i + j - 1] = lit[j]

\* n digits occur in s at position i
DigitsAt(s, i, n) ==
  /\ i + n - 1 <= Len(s)
  /\ \A j \in 0..(n - 1) : IsDigit(s[i + j])

\* (\d{1,2})/(\d{2}) at position i with n digits in the first group
EndAt(s, i, n) ==
  /\ DigitsAt(s, i, n)
  /\ HasLit(s, i + n, LitSlash)
  /\ DigitsAt(s, i + n + 1, 2)

\* the tail of the pattern from the second group on: greedy, two digits first
MatchEnd(s, i) ==
  IF EndAt(s, i, 2)
  THEN <<[end_day |-> SubSeq(s, i, i + 1), month |-> SubSeq(s, i + 3, i + 4),
          stop |-> i + 5]>>
  ELSE IF EndAt(s, i, 1)
  THEN <<[end_day |-> SubSeq(s, i, i), month |-> SubSeq(s, i + 2, i + 3),
          stop |-> i + 4]>>
  ELSE <<>>

\* Del (\d{1,2}) al  followed by the tail, with n digits in the first group
StartAt(s, i, n) ==
  /\ HasLit(s, i, LitDel)
  /\ DigitsAt(s, i + 4, n)
  /\ HasLit(s, i + 4 + n, LitAl)
  /\ MatchEnd(s, i + 8 + n) # <<>>

\* one attempt of the pattern at position i: <<>> or <<the groups and the
\* position after the match>>
MatchAt(s, i) ==
  IF StartAt(s, i, 2)
  THEN LET e == MatchEnd(s, i + 10)[1]
       IN  <<[start_day |-> SubSeq(s, i + 4, i + 5), end_day |-> e.end_day,
              month |-> e.month, stop |-> e.stop]>>
  ELSE IF StartAt(s, i, 1)
  THEN LET e == MatchEnd(s, i + 9)[1]
       IN  <<[start_day |-> SubSeq(s, i + 4, i + 4), end_day |-> e.end_day,
              month |-> e.month, stop |-> e.stop]>>
  ELSE <<>>

\* the scan of re.findall from position i: leftmost match, then on from its end
RECURSIVE FindFrom(_, _)
FindFrom(s, i) ==
  IF i > Len(s) THEN <<>>
  ELSE LET m == MatchAt(s, i)
       IN  IF m # <<>>
           THEN <<[start_day |-> m[1].start_day, end_day |-> m[1].end_day,
                   month |-> m[1].month]>> \o FindFrom(s, m[1].stop)
           ELSE FindFrom(s, i + 1)

\* the first match only, as a single search would give
findall_first(s) ==
  IF FindFrom(s, 1) = <<>> THEN <<>> ELSE <<FindFrom(s, 1)[1]>>

\* re.findall(pattern, weeks_str): the groups of every match, as strings
findall(s) == FindFrom(s, 1)

(***************************************************************************)
(* datetime.date                                                           *)
(***************************************************************************)
IsLeap(y) == (y % 4 = 0) /\ ((y % 100 # 0) \/ (y % 400 = 0))

DaysInMonth(y, m) ==
  IF m = 2 THEN (IF IsLeap(y) THEN 29 ELSE 28)
  ELSE IF m \in {4, 6, 9, 11} THEN 30
  ELSE 31

\* date(y, m, d) constructs a date; otherwise it raises ValueError
ValidDate(y, m, d) ==
  /\ y >= 1 /\ y <= 9999
  /\ m >= 1 /\ m <= 12
  /\ d >= 1 /\ d <= DaysInMonth(y, m)

date(y, m, d) == [year |-> y, month |-> m, day |-> d]

\* n printed in decimal with at least w digits, zero padded (%0wd)
RECURSIVE Pad(_, _)
Pad(n, w) ==
  IF w <= 1 /\ n < 10 THEN <<Digits[n + 1]>>
  ELSE Pad(n \div 10, w - 1) \o <<Digits[(n % 10) + 1]>>

\* fromisoformat(s) for a string YYYY-MM-DD
fromisoformat(s) == date(int(SubSeq(s, 1, 4)), int(SubSeq(s, 6, 7)), int(SubSeq(s, 9, 10)))

\* a <= b for two dates
DateLeq(a, b) ==
  \/ a.year < b.year
  \/ a.year = b.year /\ a.month < b.month
  \/ a.year = b.year /\ a.month = b.month /\ a.day <= b.day

\* d + timedelta(days=1)
next_day(d) ==
  IF d.day < DaysInMonth(d.year, d.month) THEN date(d.year, d.month, d.day + 1)
  ELSE IF d.month < 12 THEN date(d.year, d.month + 1, 1)
  ELSE date(d.year + 1, 1, 1)

\* d - timedelta(days=1)
prev_day(d) ==
  IF d.day > 1 THEN date(d.year, d.month, d.day - 1)
  ELSE IF d.month > 1 THEN date(d.year, d.month - 1, DaysInMonth(d.year, d.month - 1))
  ELSE date(d.year - 1, 12, 31)

\* d + timedelta(days=n)
RECURSIVE add_days(_, _)
add_days(d, n) ==
  IF n = 0 THEN d
  ELSE IF n > 0 THEN add_days(next_day(d), n - 1)
  ELSE add_days(prev_day(d), n + 1)

\* the days of the months of year y before month m
RECURSIVE days_before_month(_, _)
days_before_month(y, m) ==
  IF m <= 1 THEN 0 ELSE days_before_month(y, m - 1) + DaysInMonth(y, m - 1)

\* d.toordinal(): 1 for 0001-01-01
toordinal(d) ==
  LET y == d.year - 1
  IN  y * 365 + (y \div 4) - (y \div 100) + (y \div 400)
      + days_before_month(d.year, d.month) + d.day

\* d.weekday(): 0 for Monday to 6 for Sunday
weekday(d) == (toordinal(d) + 6) % 7

\* a format without the zero padding of month and day
isoformat_unpadded(d) == Pad(d.year, 4) \o <<"-">> \o Pad(d.month, 1) \o <<"-">> \o Pad(d.day, 1)

\* date.isoformat(): YYYY-MM-DD
isoformat(d) == Pad(d.year, 4) \o <<"-">> \o Pad(d.month, 2) \o <<"-">> \o Pad(d.day, 2)

(***************************************************************************)
(* generate_ics_calendar and find_menu_for_date.                           *)
(***************************************************************************)
\* line 140
day_names ==
  <<<<"D", "i", "l", "l", "u", "n", "s">>,
    <<"D", "i", "m", "a", "r", "t", "s">>,
    <<"D", "i", "m", "e", "c", "r", "e", "s">>,
    <<"D", "i", "j", "o", "u", "s">>,
    <<"D", "i", "v", "e", "n", "d", "r", "e", "s">>>>

\* a test that leaves Friday out
is_weekday_before_friday(d) == weekday(d) < 4

\* line 138
is_weekday(d) == weekday(d) < 5

\* dict.get(key) is truthy: the key holds a text that is not empty
truthy(x) == x # None /\ Len(x) > 0

\* lines 154-162: the parts of the description, a label and a text each
description_parts(day_menu) ==
  (IF truthy(day_menu.entrant)
   THEN <<[label |-> "Entrant:", text |-> day_menu.entrant]>> ELSE <<>>)
  \o (IF truthy(day_menu.main)
      THEN <<[label |-> "Principal:", text |-> day_menu.main]>> ELSE <<>>)
  \o (IF truthy(day_menu.dessert)
      THEN <<[label |-> "Postre:", text |-> day_menu.dessert]>> ELSE <<>>)

\* lines 136-181: the events after the body of the while loop ran for d
events_after_day(events, week_menu, d) ==
  IF is_weekday(d) /\ day_names[weekday(d) + 1] \in DOMAIN week_menu.days
  THEN Append(events,
              [date        |-> d,
               summary     |-> day_names[weekday(d) + 1],
               description |-> description_parts(week_menu.days[day_names[weekday(d) + 1]])])
  ELSE events

\* a test of the start of the range alone
range_contains_from_start(week_range, target_date_str) ==
  StrLeq(week_range.start, target_date_str)

\* line 193: start <= target_date_str <= end, on the strings
range_contains(week_range, target_date_str) ==
  /\ StrLeq(week_range.start, target_date_str)
  /\ StrLeq(target_date_str, week_range.end)

(***************************************************************************)
(* daily_menu_message.py: holidays and the message of the day.  A key a    *)
(* holiday entry may lack holds Absent; holiday data that could not be     *)
(* loaded (None) is NoHolidayData.                                         *)
(***************************************************************************)
Absent == "absent"

NoHolidayData == [loaded |-> FALSE, has_holidays |-> FALSE, holidays |-> <<>>]

NoHoliday ==
  [date |-> <<>>, name |-> Absent, type |-> Absent, description |-> Absent,
   school_closed |-> Absent]

\* lines 54-65: the first entry whose date is the ISO string of the target
RECURSIVE first_holiday(_, _)
first_holiday(holidays, target_date_str) ==
  IF Len(holidays) = 0 THEN [found |-> FALSE, holiday |-> NoHoliday]
  ELSE IF holidays[1].date = target_date_str
       THEN [found |-> TRUE, holiday |-> holidays[1]]
       ELSE first_holiday(Tail(holidays), target_date_str)

\* a lookup that returns the last entry of the date
check_holiday_last(d, hd) ==
  LET of_date == {n \in 1..Len(hd.holidays) : hd.holidays[n].date = isoformat(d)}
  IN  IF ~hd.loaded \/ ~hd.has_holidays \/ of_date = {}
      THEN [found |-> FALSE, holiday |-> NoHoliday]
      ELSE [found |-> TRUE,
            holiday |-> hd.holidays[CHOOSE n \in of_date : \A m \in of_date : m <= n]]

\* lines 54-65
check_holiday(d, hd) ==
  IF ~hd.loaded \/ ~hd.has_holidays
  THEN [found |-> FALSE, holiday |-> NoHoliday]
  ELSE first_holiday(hd.holidays, isoformat(d))

\* lines 67-72: holiday.get('school_closed', False) of the entry found
is_school_closed(d, hd) ==
  /\ check_holiday(d, hd).found
  /\ check_holiday(d, hd).holiday.school_closed = "true"

NoWeekMenu == [weeks |-> <<>>, days |-> [name \in {} |-> None]]

\* lines 74-82: the first week menu with a range that holds the date
RECURSIVE find_menu_for_date(_, _)
find_menu_for_date(md, d) ==
  IF Len(md) = 0 THEN [found |-> FALSE, week_menu |-> NoWeekMenu]
  ELSE IF \E n \in 1..Len(md[1].weeks) : range_contains(md[1].weeks[n], isoformat(d))
       THEN [found |-> TRUE, week_menu |-> md[1]]
       ELSE find_menu_for_date(Tail(md), d)

\* lines 89-103: the date lies between the least start and the greatest end
is_date_within_quarterly_range(d, md) ==
  LET all_dates ==
        UNION {UNION {{md[w].weeks[n].start, md[w].weeks[n].end} :
                        n \in 1..Len(md[w].weeks)} : w \in 1..Len(md)}
  IN  IF all_dates = {} THEN FALSE
      ELSE LET start_date == CHOOSE x \in all_dates : \A y \in all_dates : StrLeq(x, y)
               last_date == CHOOSE x \in all_dates : \A y \in all_dates : StrLeq(y, x)
           IN  StrLeq(start_date, isoformat(d)) /\ StrLeq(isoformat(d), last_date)

\* line 108: strftime('%d/%m/%Y')
strftime_dmy(d) ==
  Pad(d.day, 2) \o <<"/">> \o Pad(d.month, 2) \o <<"/">> \o Pad(d.year, 4)

\* the emoji of a holiday type that holiday_types does not name (U+1F389)
\* and of the type 'festiu', which it names (U+1F384)
DefaultEmoji == "U+1F389"
FestiuEmoji == "U+1F384"

\* lines 113-114: holiday_types.get(type, {}).get('emoji', default)
type_emoji(type) == IF type = "festiu" THEN FestiuEmoji ELSE DefaultEmoji

\* no message: the value of the variable before generate_daily_message ran
NoMessage ==
  [raised |-> FALSE, kind |-> "none", telegram |-> FALSE, emoji |-> "",
   day_name |-> <<>>, date_str |-> <<>>, holiday_name |-> "",
   description |-> "", courses |-> <<>>]

\* lines 141-170: the lines of the courses that have a text
message_courses(day_menu) ==
  (IF truthy(day_menu.entrant)
   THEN <<[label |-> "Primer:", text |-> day_menu.entrant]>> ELSE <<>>)
  \o (IF truthy(day_menu.main)
      THEN <<[label |-> "Segon:", text |-> day_menu.main]>> ELSE <<>>)
  \o (IF truthy(day_menu.dessert)
      THEN <<[label |-> "Postre:", text |-> day_menu.dessert]>> ELSE <<>>)

\* lines 105-172; line 107 indexes the five day names with weekday() and
\* raises IndexError on a Saturday or Sunday
generate_daily_message(d, md, format_for_telegram, hd) ==
  IF weekday(d) >= Len(day_names)
  THEN [NoMessage EXCEPT !.raised = TRUE, !.kind = "IndexError"]
  ELSE
    LET base == [NoMessage EXCEPT !.telegram = format_for_telegram,
                                  !.day_name = day_names[weekday(d) + 1],
                                  !.date_str = strftime_dmy(d)]
        h == check_holiday(d, hd)
        wm == find_menu_for_date(md, d)
    IN  IF h.found
        THEN [base EXCEPT
                !.kind = "holiday",
                !.emoji = type_emoji(h.holiday.type),
                !.holiday_name = IF h.holiday.name = Absent THEN "Festiu"
                                 ELSE h.holiday.name,
                !.description = IF h.holiday.description = Absent THEN ""
                                ELSE h.holiday.description]
        ELSE IF ~wm.found \/ base.day_name \notin DOMAIN wm.week_menu.days
        THEN IF is_date_within_quarterly_range(d, md)
             THEN [base EXCEPT !.kind = "lliure disposicio"]
             ELSE [base EXCEPT !.kind = "no menu"]
        ELSE [base EXCEPT !.kind = "menu",
                          !.courses = message_courses(wm.week_menu.days[base.day_name])]

(***************************************************************************)
(* regenerate_html_ics.py: the calendar with holidays.                     *)
(***************************************************************************)
\* lines 38-59: the all-day event of a holiday entry
holiday_event(holiday) ==
  [date        |-> fromisoformat(holiday.date),
   all_day     |-> TRUE,
   summary     |-> <<type_emoji(holiday.type), holiday.name>>,
   description |-> IF holiday.description = Absent THEN "" ELSE holiday.description,
   category    |-> holiday.type,
   courses     |-> <<>>]

\* a test that passes over the entries whose school_closed is not true
is_holiday_closed(d, hd) ==
  /\ hd.loaded
  /\ hd.has_holidays
  /\ \E n \in 1..Len(hd.holidays) :
       hd.holidays[n].date = isoformat(d) /\ hd.holidays[n].school_closed = "true"

\* lines 73-79: is_holiday, an entry has the ISO string of the date
is_holiday(d, hd) ==
  /\ hd.loaded
  /\ hd.has_holidays
  /\ \E n \in 1..Len(hd.holidays) : hd.holidays[n].date = isoformat(d)

\* lines 98-104: the parts of the description of a menu event
regen_description_parts(day_menu) ==
  (IF truthy(day_menu.entrant)
   THEN <<[label |-> "Primer:", text |-> day_menu.entrant]>> ELSE <<>>)
  \o (IF truthy(day_menu.main)
      THEN <<[label |-> "Segon:", text |-> day_menu.main]>> ELSE <<>>)
  \o (IF truthy(day_menu.dessert)
      THEN <<[label |-> "Postre:", text |-> day_menu.dessert]>> ELSE <<>>)

\* lines 70-125: the events after the body of the while loop ran for d
regen_events_after_day(evs, week_menu, d, hd) ==
  IF /\ weekday(d) < 5
     /\ ~is_holiday(d, hd)
     /\ day_names[weekday(d) + 1] \in DOMAIN week_menu.days
  THEN Append(evs,
              [date        |-> d,
               all_day     |-> FALSE,
               summary     |-> <<"Menu Sant Nicolau", day_names[weekday(d) + 1]>>,
               description |-> "",
               category    |-> "menu",
               courses     |-> regen_description_parts(week_menu.days[day_names[weekday(d) + 1]])])
  ELSE evs

(***************************************************************************)
(* regenerate_html_ics.py: get_upcoming_school_holidays and                *)
(* generate_novetats_html.                                                 *)
(***************************************************************************)
\* lines 198-204: a school holiday on a weekday, from today to days_ahead
\* days later
is_upcoming(holiday, now, days_ahead) ==
  /\ holiday.school_closed = "true"
  /\ DateLeq(now, fromisoformat(holiday.date))
  /\ DateLeq(fromisoformat(holiday.date), add_days(now, days_ahead))
  /\ weekday(fromisoformat(holiday.date)) < 5

\* list.sort(key=lambda x: x['date']): the place of entry n of hs, entries
\* with equal strings staying in their order
date_rank(hs, n) ==
  1 + Cardinality({j \in 1..Len(hs) :
                     \/ hs[j].date # hs[n].date /\ StrLeq(hs[j].date, hs[n].date)
                     \/ hs[j].date = hs[n].date /\ j < n})

\* lines 187-208
get_upcoming_school_holidays(hd, now, days_ahead) ==
  IF ~hd.loaded \/ ~hd.has_holidays THEN <<>>
  ELSE LET upcoming_holidays ==
             SelectSeq(hd.holidays, LAMBDA h : is_upcoming(h, now, days_ahead))
       IN  [p \in 1..Len(upcoming_holidays) |->
              upcoming_holidays[CHOOSE n \in 1..Len(upcoming_holidays) :
                                  date_rank(upcoming_holidays, n) = p]]

\* lines 215-222: the calendar announcement (its icon is U+1F4C5)
announcement ==
  [icon        |-> "U+1F4C5",
   title       |-> "Calendari actualitzat",
   days_until  |-> 0,
   time_text   |-> "",
   description |-> "",
   type        |-> "info",
   date        |-> date(2025, 10, 8),
   sort_date   |-> date(2025, 10, 8)]

\* lines 227-234
time_text(days_until) ==
  IF days_until = 0 THEN "avui"
  ELSE IF days_until = 1 THEN "dema"
  ELSE "en N dies"

\* lines 226-246: the item of an upcoming holiday
holiday_item(holiday, now) ==
  [icon        |-> type_emoji(holiday.type),
   title       |-> holiday.name,
   days_until  |-> toordinal(fromisoformat(holiday.date)) - toordinal(now),
   time_text   |-> time_text(toordinal(fromisoformat(holiday.date)) - toordinal(now)),
   description |-> IF holiday.description = Absent THEN "" ELSE holiday.description,
   type        |-> "holiday",
   date        |-> fromisoformat(holiday.date),
   sort_date   |-> fromisoformat(holiday.date)]

\* lines 212-246: novetats_items before the sort
novetats_candidates(hd, now) ==
  LET upcoming_holidays == get_upcoming_school_holidays(hd, now, 5)
  IN  <<announcement>>
      \o [n \in 1..Len(upcoming_holidays) |-> holiday_item(upcoming_holidays[n], now)]

\* the items left in the order they were added
unsorted(items) == items

\* line 252: list.sort(key=lambda x: x['sort_date'], reverse=True), items
\* with equal dates staying in their order
sort_reverse(items) ==
  LET rank(n) ==
        1 + Cardinality({j \in 1..Len(items) :
                           \/ /\ items[j].sort_date # items[n].sort_date
                              /\ DateLeq(items[n].sort_date, items[j].sort_date)
                           \/ items[j].sort_date = items[n].sort_date /\ j < n})
  IN  [p \in 1..Len(items) |-> items[CHOOSE n \in 1..Len(items) : rank(n) = p]]

\* line 253: items[:3]
first_three(items) == SubSeq(items, 1, IF Len(items) < 3 THEN Len(items) ELSE 3)

\* lines 259-269: what is rendered of an item
novetats_div(item) ==
  [css_class   |-> <<"novetats-item", item.type>>,
   icon        |-> item.icon,
   title       |-> <<item.title, item.time_text, item.days_until>>,
   description |-> item.description,
   date_text   |-> strftime_dmy(item.date)]

\* no result: the value of the variable before generate_novetats_html ran
NoNovetats == [returned |-> FALSE, empty |-> TRUE, divs |-> <<>>]

\* lines 210-272
generate_novetats_html(hd, now) ==
  LET novetats_items == novetats_candidates(hd, now)
      shown == first_three(sort_reverse(novetats_items))
  IN  IF Len(novetats_items) = 0
      THEN [returned |-> TRUE, empty |-> TRUE, divs |-> <<>>]
      ELSE [returned |-> TRUE, empty |-> FALSE,
            divs |-> [n \in 1..Len(shown) |-> novetats_div(shown[n])]]

(***************************************************************************)
(* parse_weeks: the body of the loop over the matches.                     *)
(***************************************************************************)
\* line 33: the year the loop goes on with, from the year it holds
EffectiveYear(y, month) == IF month >= 7 THEN y ELSE y + 1

\* the start in December of the same year
start_of_same_year(y, month, start_day, end_day) ==
  IF start_day > end_day
  THEN IF month = 1
       THEN [year |-> y, month |-> 12, day |-> start_day]
       ELSE [year |-> y, month |-> month - 1, day |-> start_day]
  ELSE [year |-> y, month |-> month, day |-> start_day]

\* lines 36-49: the (year, month, day) the start date is built from
start_of(y, month, start_day, end_day) ==
  IF start_day > end_day
  THEN IF month = 1
       THEN [year |-> y - 1, month |-> 12, day |-> start_day]
       ELSE [year |-> y, month |-> month - 1, day |-> start_day]
  ELSE [year |-> y, month |-> month, day |-> start_day]

\* lines 46 and 50: the (year, month, day) the end date is built from
end_of(y, month, end_day) == [year |-> y, month |-> month, day |-> end_day]

\* an iteration that passes over a match whose dates are invalid
loop_body_skip(y, m, res) ==
  LET start_day == int(m.start_day)
      end_day == int(m.end_day)
      month == int(m.month)
      ny == EffectiveYear(y, month)
      s == start_of(ny, month, start_day, end_day)
      e == end_of(ny, month, end_day)
  IN  IF ValidDate(s.year, s.month, s.day) /\ ValidDate(e.year, e.month, e.day)
      THEN [year |-> ny, raised |-> FALSE,
            result |-> Append(res,
                              [start |-> isoformat(date(s.year, s.month, s.day)),
                               end |-> isoformat(date(e.year, e.month, e.day))])]
      ELSE [year |-> ny, raised |-> FALSE, result |-> res]

\* One iteration for the groups m of a match, entered with the local year y
\* and the list res: the year and the list it leaves, and whether a
\* date constructor raised ValueError.
loop_body(y, m, res) ==
  LET start_day == int(m.start_day)
      end_day == int(m.end_day)
      month == int(m.month)
      ny == EffectiveYear(y, month)
      s == start_of(ny, month, start_day, end_day)
      e == end_of(ny, month, end_day)
  IN  IF ValidDate(s.year, s.month, s.day) /\ ValidDate(e.year, e.month, e.day)
      THEN [year |-> ny, raised |-> FALSE,
            result |-> Append(res,
                              [start |-> isoformat(date(s.year, s.month, s.day)),
                               end |-> isoformat(date(e.year, e.month, e.day))])]
      ELSE [year |-> ny, raised |-> TRUE, result |-> res]

\* lines 27-52: the loop over the matches ms from the year y and the list
\* res, to its end or to the first ValueError
RECURSIVE run_loop(_, _, _)
run_loop(y, ms, res) ==
  IF Len(ms) = 0 THEN [raised |-> FALSE, value |-> res]
  ELSE LET b == loop_body(y, ms[1], res)
       IN  IF b.raised THEN [raised |-> TRUE, value |-> <<>>]
           ELSE run_loop(b.year, Tail(ms), b.result)

\* lines 20-53: parse_weeks(weeks_str, year) as a function of its arguments
parse_weeks(s, y) == run_loop(y, findall(s), <<>>)

(***************************************************************************)
(* Input texts.  A text is made of parts joined by single spaces; a part  *)
(* is a written week range 'Del D1 al D2/MM' or some other text.           *)
(***************************************************************************)
DayStrs == {<<"0">>, <<"3">>, <<"2", "9">>, <<"3", "0">>, <<"3", "1">>}

MonthStrs == {<<"0", "0">>, <<"0", "1">>, <<"0", "2">>, <<"0", "3">>,
              <<"0", "6">>, <<"0", "7">>, <<"1", "2">>, <<"1", "3">>}

Range(d1, d2, mm) == [m |-> TRUE, d1 |-> d1, d2 |-> d2, mm |-> mm, txt |-> <<>>]

Other(txt) == [m |-> FALSE, d1 |-> <<>>, d2 |-> <<>>, mm |-> <<>>, txt |-> txt]

RangeParts == {Range(d1, d2, mm) : d1 \in DayStrs, d2 \in DayStrs, mm \in MonthStrs}

\* text the pattern does not match: a word, a one-digit month, a lower
\* case 'del'
OtherParts ==
  {Other(<<"x">>),
   Other(<<"D", "e", "l", " ", "9", " ", "a", "l", " ", "1", "2", "/", "9">>),
   Other(<<"d", "e", "l", " ", "9", " ", "a", "l", " ", "1", "2", "/", "0", "9">>)}

SpringPart == Range(<<"2", "9">>, <<"3">>, <<"0", "1">>)
AutumnPart == Range(<<"3">>, <<"2", "9">>, <<"1", "2">>)
BadPart == Range(<<"3", "1">>, <<"3">>, <<"1", "2">>)

\* the parts that come before the last part of a text
LeadParts == {SpringPart, AutumnPart, BadPart} \cup OtherParts

Parts == RangeParts \cup OtherParts

\* texts of up to MaxMatches parts, each a valid range, an invalid range or
\* text without a match
LoopTexts == UNION {[1..n -> LeadParts] : n \in 0..MaxMatches}

\* the texts of the calls: any part, alone or after a range of the spring,
\* and the texts made of leading parts
Texts ==
  {lead \o <<last>> : lead \in {<<>>, <<SpringPart>>}, last \in Parts}
  \cup LoopTexts

\* inputs of the calls made between two calls on the same input
OtherInputs == {<<<<SpringPart>>, 2026>>, <<<<AutumnPart, SpringPart>>, 2027>>}

\* the years passed as anchor: 2028 is a leap year, 2027 and 2029 are not
Anchors == {2026, 2027}

PartText(p) ==
  IF p.m THEN LitDel \o p.d1 \o LitAl \o p.d2 \o LitSlash \o p.mm ELSE p.txt

\* the string a sequence of parts stands for
Render(parts) == join(<<" ">>, [i \in 1..Len(parts) |-> PartText(parts[i])])

\* the written week ranges of a text, in text order
Written(parts) == SelectSeq(parts, LAMBDA p : p.m)

(***************************************************************************)
(* Tables given to parse_menu.  The first cell of a data row holds kids;  *)
(* a kid with a 'content' key holds text.                                  *)
(***************************************************************************)
Kid(parts) == [has_content |-> TRUE, parts |-> parts]

\* a kid without a 'content' key
Bare == [has_content |-> FALSE, parts |-> <<>>]

WeekCells ==
  {<<>>,
   <<Bare>>,
   <<Kid(<<AutumnPart>>)>>,
   <<Kid(<<AutumnPart>>), Kid(<<SpringPart>>)>>,
   <<Kid(<<BadPart>>)>>,
   <<Kid(<<Other(<<"x">>)>>)>>}

Tables == UNION {[1..n -> WeekCells] : n \in 0..MaxRows}

\* the kids of a cell that have a 'content' key
with_content(kids) == SelectSeq(kids, LAMBDA kid : kid.has_content)

RECURSIVE cell_parts(_)
cell_parts(kids) ==
  IF Len(kids) = 0 THEN <<>> ELSE kids[1].parts \o cell_parts(Tail(kids))

\* a kid of type paragraph and a kid of type list
Para(text) == [type |-> "paragraph", content |-> text, items |-> <<>>]

List(items) == [type |-> "list", content |-> <<>>, items |-> items]

\* header cells: no kids, "dilluns", "DIMARTS" and "-"
HeaderCells ==
  {<<>>,
   <<Para(<<"d", "i", "l", "l", "u", "n", "s">>)>>,
   <<Para(<<"D", "I", "M", "A", "R", "T", "S">>)>>,
   <<Para(<<"-">>)>>}

\* list items: "- sopa", "ARROS", "fruita", "pa"
Sopa == <<"-", " ", "s", "o", "p", "a">>
Arros == <<"A", "R", "R", "O", "S">>
Fruita == <<"f", "r", "u", "i", "t", "a">>
Pa == <<"p", "a">>

\* cells of a weekday: no kids, a paragraph, a list without items, lists of
\* one to four items, and two lists
DayCells ==
  {<<>>,
   <<Para(Sopa)>>,
   <<List(<<>>)>>,
   <<List(<<Sopa>>)>>,
   <<List(<<Sopa, Arros, Fruita>>)>>,
   <<Para(Pa), List(<<Sopa, Arros>>), List(<<Fruita, Pa>>)>>}

\* the week cells of the rows whose weekday cells are read
DayWeekCells == {<<>>, <<Kid(<<AutumnPart>>)>>}

\* a week range as parse_weeks returns it
IsoRange(a, b) == [start |-> isoformat(a), end |-> isoformat(b)]

\* Monday to Friday; Sunday to Saturday; Tuesday to Sunday over the turn of
\* the year; Saturday to Sunday
WorkWeek == IsoRange(date(2026, 9, 7), date(2026, 9, 11))
FullWeek == IsoRange(date(2026, 9, 6), date(2026, 9, 12))
YearEndWeek == IsoRange(date(2026, 12, 29), date(2027, 1, 3))
Weekend == IsoRange(date(2026, 9, 12), date(2026, 9, 13))

\* the entries of a day as parse_menu makes them
ThreeCourses == day_entry(cell_meals(<<List(<<Sopa, Arros, Fruita>>)>>))
OneCourse == day_entry(cell_meals(<<List(<<Sopa>>)>>))

\* the 'days' of a week menu: none, Monday only, Monday and Friday
NoDays == [name \in {} |-> OneCourse]
MondayOnly == [name \in {day_names[1]} |-> ThreeCourses]
MondayFriday ==
  [name \in {day_names[1], day_names[5]} |->
     IF name = day_names[1] THEN ThreeCourses ELSE OneCourse]

WeekMenus ==
  {[weeks |-> <<>>, days |-> MondayOnly],
   [weeks |-> <<WorkWeek>>, days |-> NoDays],
   [weeks |-> <<WorkWeek>>, days |-> MondayFriday],
   [weeks |-> <<FullWeek>>, days |-> MondayOnly],
   [weeks |-> <<Weekend>>, days |-> MondayFriday],
   [weeks |-> <<YearEndWeek>>, days |-> MondayOnly],
   [weeks |-> <<FullWeek, YearEndWeek>>, days |-> MondayFriday]}

MenuData == UNION {[1..n -> WeekMenus] : n \in 0..MaxWeeks}

\* a holiday entry with its optional keys
Holiday(d, name, type, description, school_closed) ==
  [date |-> isoformat(d), name |-> name, type |-> type,
   description |-> description, school_closed |-> school_closed]

\* holiday entries of Monday 2026-09-07, Friday 2026-09-11 and Saturday
\* 2026-09-12
DailyHolidays ==
  {Holiday(date(2026, 9, 7), "Festa local", "local", Absent, "false"),
   Holiday(date(2026, 9, 7), "Diada", "festiu", "Festa", "true"),
   Holiday(date(2026, 9, 11), Absent, "festiu", "Festa", Absent),
   Holiday(date(2026, 9, 12), "La Merce", "festiu", Absent, "false")}

HolidayLists(entries) == UNION {[1..n -> entries] : n \in 0..MaxHolidays}

\* the holiday data of daily_menu_message.py: none, a file without the key
\* 'holidays', and the lists of entries
DailyHolidayData ==
  {NoHolidayData, [loaded |-> TRUE, has_holidays |-> FALSE, holidays |-> <<>>]}
  \cup {[loaded |-> TRUE, has_holidays |-> TRUE, holidays |-> hs] :
          hs \in HolidayLists(DailyHolidays)}

\* the menu data of daily_menu_message.py
DailyMenuData ==
  {<<>>,
   <<[weeks |-> <<WorkWeek>>, days |-> MondayFriday]>>,
   <<[weeks |-> <<FullWeek>>, days |-> NoDays],
     [weeks |-> <<WorkWeek>>, days |-> MondayOnly]>>}

\* the dates of the message: Monday, Wednesday, Friday and Saturday of the
\* week of 2026-09-07 and the Monday after it
DailyDates ==
  {date(2026, 9, 7), date(2026, 9, 9), date(2026, 9, 11), date(2026, 9, 12),
   date(2026, 9, 14)}

\* holiday entries of regenerate_html_ics.py: Monday 2026-09-07 twice,
\* Wednesday 2026-09-09 and Saturday 2026-09-12
RegenHolidays ==
  {Holiday(date(2026, 9, 7), "Festa local", "local", Absent, "false"),
   Holiday(date(2026, 9, 7), "Diada", "festiu", "Festa", "true"),
   Holiday(date(2026, 9, 9), "Pont", "lliure", "Festa", Absent),
   Holiday(date(2026, 9, 12), "La Merce", "festiu", Absent, "true")}

RegenHolidayData ==
  {NoHolidayData, [loaded |-> TRUE, has_holidays |-> FALSE, holidays |-> <<>>]}
  \cup {[loaded |-> TRUE, has_holidays |-> TRUE, holidays |-> hs] :
          hs \in HolidayLists(RegenHolidays)}

\* the menu data of regenerate_html_ics.py
RegenMenuData ==
  {<<>>,
   <<[weeks |-> <<WorkWeek>>, days |-> MondayFriday]>>,
   <<[weeks |-> <<FullWeek>>, days |-> MondayOnly],
     [weeks |-> <<WorkWeek>>, days |-> MondayFriday]>>}

\* holiday entries of generate_novetats_html: Tuesday 2025-10-07, Thursday
\* 2025-10-09 twice, Friday 2025-10-10, Saturday 2025-10-11 and Monday
\* 2025-10-20
NovetatsHolidays ==
  {Holiday(date(2025, 10, 7), "Festa local", "local", Absent, "true"),
   Holiday(date(2025, 10, 9), "Pont", "lliure", "Festa", "true"),
   Holiday(date(2025, 10, 9), "Fira", "local", "Festa", "false"),
   Holiday(date(2025, 10, 10), "Diada", "festiu", "Festa", "true"),
   Holiday(date(2025, 10, 11), "La Merce", "festiu", Absent, "true"),
   Holiday(date(2025, 10, 20), "Claustre", "lliure", Absent, "true")}

NovetatsHolidayData ==
  {NoHolidayData, [loaded |-> TRUE, has_holidays |-> FALSE, holidays |-> <<>>]}
  \cup {[loaded |-> TRUE, has_holidays |-> TRUE, holidays |-> hs] :
          hs \in HolidayLists(NovetatsHolidays)}

\* datetime.now().date(): Monday 2025-10-06, Thursday 2025-10-09 and
\* Wednesday 2025-10-15
NowDates == {date(2025, 10, 6), date(2025, 10, 9), date(2025, 10, 15)}

\* a JSON file: missing, not valid JSON, or holding data
File(state, data) == [state |-> state, data |-> data]

\* the menu files of a run of daily_menu_message.py
DailyMenuFiles ==
  {File("ok", <<[weeks |-> <<WorkWeek>>, days |-> MondayFriday]>>),
   File("ok", <<[weeks |-> <<FullWeek>>, days |-> NoDays]>>)}

\* the holiday files of a run: missing, or holding holiday data
DailyHolidayFiles ==
  {File("missing", NoHolidayData)}
  \cup {File("ok", hd) : hd \in {x \in DailyHolidayData : x.loaded}}

\* the option --output-file and the file it names before the run: no
\* option, a file that does not exist, a file with older content
OutputOptions == {<<"None", "absent">>, <<"out.txt", "absent">>, <<"out.txt", "old">>}

\* the dates of a run: Monday, Friday and Saturday of the week of
\* 2026-09-07 and the Monday after it
RunTargets == {date(2026, 9, 7), date(2026, 9, 11), date(2026, 9, 12), date(2026, 9, 14)}

\* the dates looked up: around the September ranges and the turn of the year
TargetDates ==
  {date(2026, 9, 5), date(2026, 9, 6), date(2026, 9, 9), date(2026, 9, 12),
   date(2026, 9, 13), date(2026, 12, 28), date(2026, 12, 31),
   date(2027, 1, 3), date(2027, 1, 4)}

\* dates on which the menu of the academic year that starts in year a is
\* converted: September and December of a, January and June of a + 1
RunDates(a) == {[year |-> a, month |-> 9], [year |-> a, month |-> 12],
                [year |-> a + 1, month |-> 1], [year |-> a + 1, month |-> 6]}

IcsOptions == {"None", "", "menu.ics"}

\* the dates given to get_previous_weekday and get_next_weekday: the turn
\* of a year and the end of a February with 29 days
WeekdayMonths == {<<2026, 12>>, <<2027, 1>>, <<2028, 2>>, <<2028, 3>>}

WeekdayDates ==
  {date(ym[1], ym[2], d) : ym \in WeekdayMonths, d \in 1..31}
    \cap {x \in [year : 2026..2028, month : 1..12, day : 1..31] :
            ValidDate(x.year, x.month, x.day)}

\* the characters of the texts given to normalize_text
NormChars == {"-", " ", "\t", "a", "A", "è"}

\* the texts of up to MaxLen characters
NormTexts == UNION {[1..n -> NormChars] : n \in 0..MaxLen}

(***************************************************************************)
(* State.                                                                  *)
(***************************************************************************)
VARIABLES
  pc,            \* position of the run
  text_parts,    \* the parts the text of the current call was made of
  weeks_str,     \* parse_weeks: the argument weeks_str
  current_year,  \* the caller's value passed as the argument year
  year,          \* parse_weeks: the local name year
  matches,       \* parse_weeks: the list re.findall returned
  k,             \* parse_weeks: number of matches the loop has gone through
  result,        \* parse_weeks: the local list result
  outcome,       \* what the last finished call gave its caller
  calls,         \* harness: number of calls made
  first_in,      \* harness: the input of the first call
  first_out,     \* harness: the outcome of the first call
  academic_year, \* the year in which the first term of the menu starts
  today,         \* date.today() of the run
  table,         \* the week cells of the data rows of the table
  r,             \* parse_menu: number of data rows gone through
  menus,         \* parse_menu: the local list menus
  parsed_menu,   \* main: the value parse_menu returned
  ics_output,    \* main: the option --ics
  html_output,   \* main: the flag --html
  files,         \* the files main and its callees have written
  header_row,    \* parse_menu: the cells of the header row after the first
  day_cells,     \* parse_menu: for each data row, its cells after the first
  menu_data,     \* generate_ics_calendar, find_menu_for_date: the argument
  wi,            \* the position of week_menu in menu_data
  ri,            \* the number of ranges of week_menu gone through
  current_date,  \* generate_ics_calendar: the local current_date
  end_date,      \* generate_ics_calendar: the local end_date
  events,        \* generate_ics_calendar: the events of cal
  ics_file,      \* generate_ics_calendar: the events written to output_path
  target_date,   \* find_menu_for_date: the argument
  found,         \* find_menu_for_date: the value returned
  holiday_data,  \* the holiday data loaded or passed as argument
  telegram,      \* daily_menu_message: the flag --telegram
  message,       \* daily_menu_message: what generate_daily_message returned
  date_arg_ok,   \* daily_menu_message.main: --date is absent or well formed
  output_file,   \* daily_menu_message.main: the option --output-file
  menu_file,     \* daily_menu_message.main: the file at json_path
  holiday_file,  \* daily_menu_message.main: the file at holiday_path
  exit_status,   \* daily_menu_message.main: the exit status, "none" while running
  stdout,        \* daily_menu_message.main: what was printed, in order
  out_file,      \* daily_menu_message.main: the content of the output file
  hol_i,         \* regenerate_html_ics: number of holiday entries gone through
  now_date,      \* generate_novetats_html: datetime.now().date()
  novetats,      \* generate_novetats_html: what it returned
  text_in,       \* normalize_text: the argument text
  text_out,      \* normalize_text: the value returned
  date_obj,      \* get_previous_weekday, get_next_weekday: the argument
  weekday_out    \* get_previous_weekday, get_next_weekday: the date returned

pw_vars == <<text_parts, weeks_str, current_year, year, matches, k, result>>

harness_vars == <<calls, first_in, first_out>>

norm_vars == <<text_in, text_out>>

\* the state of the functions that main and parse_weeks do not call
weekday_vars == <<date_obj, weekday_out>>

data_vars == <<menu_data, wi, ri>>

ics_vars == <<current_date, end_date, events, ics_file>>

find_vars == <<target_date, found>>

message_vars == <<holiday_data, telegram, message>>

daily_vars ==
  <<date_arg_ok, output_file, menu_file, holiday_file, exit_status, stdout,
    out_file>>

regen_vars == <<hol_i, now_date, novetats>>

holiday_vars == <<message_vars, daily_vars, regen_vars>>

lib_vars == <<norm_vars, weekday_vars, data_vars, ics_vars, find_vars, holiday_vars>>

days_vars == <<header_row, day_cells>>

env_vars == <<academic_year, today, table, html_output, days_vars, lib_vars>>

menu_vars == <<r, menus, parsed_menu, ics_output, files>>

vars == <<pc, pw_vars, outcome, harness_vars, env_vars, menu_vars>>

NoOutcome == [raised |-> FALSE, value |-> <<>>]

\* no call of normalize_text
NormIdle ==
  /\ text_in = <<>>
  /\ text_out = <<>>

\* no call of get_previous_weekday or get_next_weekday
WeekdayIdle ==
  /\ date_obj = date(2026, 9, 1)
  /\ weekday_out = date(2026, 9, 1)

\* a table with the week column only
DaysIdle ==
  /\ header_row = <<>>
  /\ day_cells = <<>>

\* no call of generate_ics_calendar or find_menu_for_date
DataIdle ==
  /\ menu_data = <<>>
  /\ wi = 1
  /\ ri = 0

IcsIdle ==
  /\ current_date = date(2026, 9, 1)
  /\ end_date = date(2026, 9, 1)
  /\ events = <<>>
  /\ ics_file = None

FindIdle ==
  /\ target_date = date(2026, 9, 1)
  /\ found = None

\* no run of daily_menu_message.py or regenerate_html_ics.py
MessageIdle ==
  /\ holiday_data = NoHolidayData
  /\ telegram = FALSE
  /\ message = NoMessage

DailyIdle ==
  /\ date_arg_ok = TRUE
  /\ output_file = "None"
  /\ menu_file = File("missing", <<>>)
  /\ holiday_file = File("missing", NoHolidayData)
  /\ exit_status = "none"
  /\ stdout = <<>>
  /\ out_file = "absent"

RegenIdle ==
  /\ hol_i = 0
  /\ now_date = date(2025, 10, 6)
  /\ novetats = NoNovetats

HolidayIdle == MessageIdle /\ DailyIdle /\ RegenIdle

LibIdle ==
  /\ NormIdle /\ WeekdayIdle /\ DaysIdle /\ DataIdle /\ IcsIdle /\ FindIdle
  /\ HolidayIdle

(***************************************************************************)
(* parse_weeks                                                             *)
(***************************************************************************)
\* a call that goes on with the year the call before it left
parse_weeks_enter_stale(parts, y) ==
  /\ text_parts' = parts
  /\ weeks_str' = Render(parts)
  /\ current_year' = y
  /\ year' = IF calls = 0 THEN y ELSE year
  /\ matches' = findall(Render(parts))
  /\ k' = 0
  /\ result' = <<>>
  /\ pc' = "pw_loop"

\* the frame of a call parse_weeks(Render(parts), y): lines 20-29
parse_weeks_enter(parts, y) ==
  /\ text_parts' = parts
  /\ weeks_str' = Render(parts)
  /\ current_year' = y
  /\ year' = y
  /\ matches' = findall(Render(parts))
  /\ k' = 0
  /\ result' = <<>>
  /\ pc' = "pw_loop"

\* a loop that does not go on to the next match
parse_weeks_loop_stuck ==
  /\ pc = "pw_loop"
  /\ k < Len(matches)
  /\ UNCHANGED vars

\* one iteration of the for loop, lines 29-52
parse_weeks_loop ==
  /\ pc = "pw_loop"
  /\ k < Len(matches)
  /\ LET b == loop_body(year, matches[k + 1], result)
     IN  /\ year' = b.year
         /\ IF b.raised
            THEN /\ pc' = "pw_raised"
                 /\ outcome' = [raised |-> TRUE, value |-> <<>>]
                 /\ UNCHANGED <<k, result>>
            ELSE /\ result' = b.result
                 /\ k' = k + 1
                 /\ UNCHANGED <<pc, outcome>>
  /\ UNCHANGED <<text_parts, weeks_str, current_year, matches>>
  /\ UNCHANGED <<harness_vars, env_vars, menu_vars>>

\* line 53, after the last match
parse_weeks_return ==
  /\ pc = "pw_loop"
  /\ k = Len(matches)
  /\ pc' = "pw_returned"
  /\ outcome' = [raised |-> FALSE, value |-> result]
  /\ UNCHANGED <<pw_vars, harness_vars, env_vars, menu_vars>>

(***************************************************************************)
(* The test harness: calls of parse_weeks(text, year) one after another.   *)
(***************************************************************************)
CallInputs ==
  IF calls = 0 THEN Texts \X Anchors
  ELSE {first_in} \cup OtherInputs

harness_call ==
  /\ pc = "idle"
  /\ calls < MaxCalls
  /\ \E inp \in CallInputs :
       /\ parse_weeks_enter(inp[1], inp[2])
       /\ first_in' = IF calls = 0 THEN inp ELSE first_in
  /\ calls' = calls + 1
  /\ outcome' = NoOutcome
  /\ UNCHANGED <<first_out, env_vars, menu_vars>>

harness_receive ==
  /\ pc \in {"pw_returned", "pw_raised"}
  /\ pc' = "idle"
  /\ first_out' = IF calls = 1 THEN outcome ELSE first_out
  /\ UNCHANGED <<pw_vars, outcome, calls, first_in, env_vars, menu_vars>>

Init ==
  /\ pc = "idle"
  /\ text_parts = <<>>
  /\ weeks_str = <<>>
  /\ current_year \in Anchors
  /\ year = current_year
  /\ matches = <<>>
  /\ k = 0
  /\ result = <<>>
  /\ outcome = NoOutcome
  /\ calls = 0
  /\ first_in = <<<<>>, current_year>>
  /\ first_out = NoOutcome
  /\ academic_year = current_year
  /\ today = [year |-> current_year, month |-> 9]
  /\ table = <<>>
  /\ r = 0
  /\ menus = <<>>
  /\ parsed_menu = <<>>
  /\ ics_output = "None"
  /\ html_output = FALSE
  /\ files = {}
  /\ LibIdle

Next ==
  \/ harness_call
  \/ parse_weeks_loop
  \/ parse_weeks_return
  \/ harness_receive

Spec == Init /\ [][Next]_vars

(***************************************************************************)
(* One call of parse_weeks, from its entry to its end, under the fairness *)
(* of an interpreter that goes on running the call it has entered.         *)
(***************************************************************************)
LoopInit ==
  /\ \E parts \in LoopTexts :
       /\ text_parts = parts
       /\ weeks_str = Render(parts)
       /\ matches = findall(Render(parts))
  /\ current_year \in Anchors
  /\ year = current_year
  /\ k = 0
  /\ result = <<>>
  /\ pc = "pw_loop"
  /\ outcome = NoOutcome
  /\ calls = 1
  /\ first_in = <<text_parts, current_year>>
  /\ first_out = NoOutcome
  /\ academic_year = current_year
  /\ today = [year |-> current_year, month |-> 9]
  /\ table = <<>>
  /\ r = 0
  /\ menus = <<>>
  /\ parsed_menu = <<>>
  /\ ics_output = "None"
  /\ html_output = FALSE
  /\ files = {}
  /\ LibIdle

LoopNext ==
  \/ parse_weeks_loop
  \/ parse_weeks_return

LoopSpec ==
  /\ LoopInit
  /\ [][LoopNext]_vars
  /\ WF_vars(parse_weeks_loop)
  /\ WF_vars(parse_weeks_return)

(***************************************************************************)
(* main and parse_menu                                                     *)
(***************************************************************************)
\* lines 897-928: the default output names, the document tree is loaded,
\* parse_menu is entered (lines 55-68)
main_start ==
  /\ pc = "main"
  /\ ics_output' = IF ics_output = "None" THEN "base_menu.ics" ELSE ics_output
  /\ menus' = <<>>
  /\ r' = 0
  /\ pc' = "pm_loop"
  /\ UNCHANGED <<pw_vars, outcome, harness_vars, env_vars, parsed_menu, files>>

\* a loop that calls parse_weeks also for a row whose first cell has no kids
parse_menu_row_no_skip ==
  /\ pc = "pm_loop"
  /\ r < Len(table)
  /\ r' = r + 1
  /\ parse_weeks_enter(cell_parts(with_content(table[r + 1])), today.year)
  /\ UNCHANGED <<outcome, harness_vars, env_vars, menus, parsed_menu,
                 ics_output, files>>

\* lines 70-79: the next data row; a row whose first cell has no kids is
\* passed over, otherwise parse_weeks is called with the year of today
parse_menu_row ==
  /\ pc = "pm_loop"
  /\ r < Len(table)
  /\ r' = r + 1
  /\ LET week_cell == table[r + 1]
     IN  IF Len(week_cell) = 0
         THEN UNCHANGED <<pc, pw_vars>>
         ELSE parse_weeks_enter(cell_parts(with_content(week_cell)), today.year)
  /\ UNCHANGED <<outcome, harness_vars, env_vars, menus, parsed_menu,
                 ics_output, files>>

\* line 82: the cells of data row n after the first
row_cells(n) == IF n \in DOMAIN day_cells THEN day_cells[n] ELSE <<>>

\* lines 79-98: the list parse_weeks returned becomes the 'weeks' of the
\* record of the row, the cells after the first give its 'days'
parse_menu_append ==
  /\ pc = "pw_returned"
  /\ menus' = Append(menus, [weeks |-> outcome.value,
                             days  |-> week_days(header_days(header_row),
                                                 row_cells(r),
                                                 Len(row_cells(r)))])
  /\ pc' = "pm_loop"
  /\ UNCHANGED <<pw_vars, outcome, harness_vars, env_vars, r, parsed_menu,
                 ics_output, files>>

\* a parse_menu that passes over the row whose week text raised
parse_menu_skip ==
  /\ pc = "pw_raised"
  /\ pc' = "pm_loop"
  /\ UNCHANGED <<pw_vars, outcome, harness_vars, env_vars, menu_vars>>

\* the ValueError leaves parse_menu (line 79) and main (line 928): neither
\* has a handler
parse_menu_raise ==
  /\ pc = "pw_raised"
  /\ menus' = <<>>
  /\ pc' = "aborted"
  /\ UNCHANGED <<pw_vars, outcome, harness_vars, env_vars, r, parsed_menu,
                 ics_output, files>>

\* line 100 and line 928
parse_menu_return ==
  /\ pc = "pm_loop"
  /\ r = Len(table)
  /\ parsed_menu' = menus
  /\ pc' = "save"
  /\ UNCHANGED <<pw_vars, outcome, harness_vars, env_vars, r, menus,
                 ics_output, files>>

\* lines 930-932: save_menu_json
main_save ==
  /\ pc = "save"
  /\ files' = files \cup {"menu.json"}
  /\ pc' = "ics"
  /\ UNCHANGED <<pw_vars, outcome, harness_vars, env_vars, r, menus,
                 parsed_menu, ics_output>>

\* lines 934-937: generate_ics_calendar
main_ics ==
  /\ pc = "ics"
  /\ files' = IF ics_output # "" THEN files \cup {"menu.ics"} ELSE files
  /\ pc' = "html"
  /\ UNCHANGED <<pw_vars, outcome, harness_vars, env_vars, r, menus,
                 parsed_menu, ics_output>>

\* lines 939-942: generate_html_pages
main_html ==
  /\ pc = "html"
  /\ files' = IF html_output THEN files \cup {"index.html", "sobre.html"}
              ELSE files
  /\ pc' = "done"
  /\ UNCHANGED <<pw_vars, outcome, harness_vars, env_vars, r, menus,
                 parsed_menu, ics_output>>

MenuInit ==
  /\ pc = "main"
  /\ text_parts = <<>>
  /\ weeks_str = <<>>
  /\ academic_year \in Anchors
  /\ today \in RunDates(academic_year)
  /\ current_year = today.year
  /\ year = today.year
  /\ matches = <<>>
  /\ k = 0
  /\ result = <<>>
  /\ outcome = NoOutcome
  /\ calls = 0
  /\ first_in = <<<<>>, academic_year>>
  /\ first_out = NoOutcome
  /\ table \in Tables
  /\ r = 0
  /\ menus = <<>>
  /\ parsed_menu = <<>>
  /\ ics_output \in IcsOptions
  /\ html_output \in BOOLEAN
  /\ files = {}
  /\ LibIdle

MenuNext ==
  \/ main_start
  \/ parse_menu_row
  \/ parse_weeks_loop
  \/ parse_weeks_return
  \/ parse_menu_append
  \/ parse_menu_raise
  \/ parse_menu_return
  \/ main_save
  \/ main_ics
  \/ main_html

MenuSpec == MenuInit /\ [][MenuNext]_vars

(***************************************************************************)
(* parse_menu called on a table with weekday columns.                      *)
(***************************************************************************)
DaysInit ==
  /\ pc = "pm_loop"
  /\ text_parts = <<>>
  /\ weeks_str = <<>>
  /\ academic_year = 2026
  /\ today = [year |-> 2026, month |-> 9]
  /\ current_year = today.year
  /\ year = today.year
  /\ matches = <<>>
  /\ k = 0
  /\ result = <<>>
  /\ outcome = NoOutcome
  /\ calls = 0
  /\ first_in = <<<<>>, academic_year>>
  /\ first_out = NoOutcome
  /\ \E n \in 0..MaxCols :
       /\ header_row \in [1..n -> HeaderCells]
       /\ \E week_cell \in DayWeekCells, cells \in [1..n -> DayCells] :
            \/ table = <<week_cell>> /\ day_cells = <<cells>>
            \/ /\ table = <<week_cell, <<Kid(<<AutumnPart>>)>> >>
               /\ day_cells = <<cells, [i \in 1..n |-> <<>>]>>
  /\ r = 0
  /\ menus = <<>>
  /\ parsed_menu = <<>>
  /\ ics_output = "None"
  /\ html_output = FALSE
  /\ files = {}
  /\ NormIdle
  /\ WeekdayIdle
  /\ DataIdle
  /\ IcsIdle
  /\ FindIdle
  /\ HolidayIdle

DaysNext ==
  \/ parse_menu_row
  \/ parse_weeks_loop
  \/ parse_weeks_return
  \/ parse_menu_append
  \/ parse_menu_return

DaysSpec == DaysInit /\ [][DaysNext]_vars

(***************************************************************************)
(* Calls of the functions on their own.                                    *)
(***************************************************************************)
\* the state of parse_weeks, parse_menu and main before any of them runs
ParseIdle ==
  /\ text_parts = <<>>
  /\ weeks_str = <<>>
  /\ current_year = 2026
  /\ year = 2026
  /\ matches = <<>>
  /\ k = 0
  /\ result = <<>>
  /\ outcome = NoOutcome
  /\ calls = 0
  /\ first_in = <<<<>>, 2026>>
  /\ first_out = NoOutcome
  /\ academic_year = 2026
  /\ today = [year |-> 2026, month |-> 9]
  /\ table = <<>>
  /\ r = 0
  /\ menus = <<>>
  /\ parsed_menu = <<>>
  /\ ics_output = "None"
  /\ html_output = FALSE
  /\ files = {}
  /\ DaysIdle

\* the variables of menu_parser.py's parse_weeks, parse_menu and main
base_vars ==
  <<pw_vars, outcome, harness_vars, menu_vars, academic_year, today, table,
    html_output, days_vars>>

parse_vars == <<base_vars, holiday_vars>>

\* get_previous_weekday(date_obj), lines 202-207
get_previous_weekday ==
  /\ pc = "weekday"
  /\ LET prev_date == add_days(date_obj, -1)
     IN  weekday_out' = IF weekday(prev_date) = 6
                        THEN add_days(prev_date, -2)
                        ELSE prev_date
  /\ pc' = "previous_returned"
  /\ UNCHANGED <<date_obj, norm_vars, data_vars, ics_vars, find_vars, parse_vars>>

\* get_next_weekday(date_obj), lines 209-214
get_next_weekday ==
  /\ pc = "weekday"
  /\ LET next_date == add_days(date_obj, 1)
     IN  weekday_out' = IF weekday(next_date) = 5
                        THEN add_days(next_date, 2)
                        ELSE next_date
  /\ pc' = "next_returned"
  /\ UNCHANGED <<date_obj, norm_vars, data_vars, ics_vars, find_vars, parse_vars>>

WeekdayInit ==
  /\ pc = "weekday"
  /\ date_obj \in WeekdayDates
  /\ weekday_out = date_obj
  /\ NormIdle
  /\ DataIdle
  /\ IcsIdle
  /\ FindIdle
  /\ ParseIdle
  /\ HolidayIdle

WeekdayNext == get_previous_weekday \/ get_next_weekday

WeekdaySpec == WeekdayInit /\ [][WeekdayNext]_vars

\* normalize_text(text_in), lines 10-18
normalize_call ==
  /\ pc = "normalize"
  /\ text_out' = normalize_text(text_in)
  /\ pc' = "normalized"
  /\ UNCHANGED <<text_in, weekday_vars, data_vars, ics_vars, find_vars, parse_vars>>

NormInit ==
  /\ pc = "normalize"
  /\ text_in \in NormTexts
  /\ text_out = <<>>
  /\ WeekdayIdle
  /\ DataIdle
  /\ IcsIdle
  /\ FindIdle
  /\ ParseIdle
  /\ HolidayIdle

NormNext == normalize_call

NormSpec == NormInit /\ [][NormNext]_vars

(***************************************************************************)
(* generate_ics_calendar(menu_data, output_path).                          *)
(***************************************************************************)
\* lines 129-134: the next range of week_menu; the loop over its dates
\* starts at the start of the range
ics_range ==
  /\ pc = "ics_weeks"
  /\ wi <= Len(menu_data)
  /\ ri < Len(menu_data[wi].weeks)
  /\ ri' = ri + 1
  /\ current_date' = fromisoformat(menu_data[wi].weeks[ri + 1].start)
  /\ end_date' = fromisoformat(menu_data[wi].weeks[ri + 1].end)
  /\ pc' = "ics_days"
  /\ UNCHANGED <<menu_data, wi, events, ics_file, norm_vars, weekday_vars,
                 find_vars, parse_vars>>

\* lines 128-129: the ranges of week_menu are gone through, the next week menu
ics_next_week ==
  /\ pc = "ics_weeks"
  /\ wi <= Len(menu_data)
  /\ ri = Len(menu_data[wi].weeks)
  /\ wi' = wi + 1
  /\ ri' = 0
  /\ UNCHANGED <<pc, menu_data, ics_vars, norm_vars, weekday_vars, find_vars,
                 parse_vars>>

\* lines 135-181: one iteration of the while loop
ics_day ==
  /\ pc = "ics_days"
  /\ DateLeq(current_date, end_date)
  /\ events' = events_after_day(events, menu_data[wi], current_date)
  /\ current_date' = add_days(current_date, 1)
  /\ UNCHANGED <<pc, data_vars, end_date, ics_file, norm_vars, weekday_vars,
                 find_vars, parse_vars>>

\* line 135: current_date is after end_date, the while loop ends
ics_days_done ==
  /\ pc = "ics_days"
  /\ ~DateLeq(current_date, end_date)
  /\ pc' = "ics_weeks"
  /\ UNCHANGED <<data_vars, ics_vars, norm_vars, weekday_vars, find_vars,
                 parse_vars>>

\* lines 183-185: the calendar is written
ics_write ==
  /\ pc = "ics_weeks"
  /\ wi > Len(menu_data)
  /\ ics_file' = events
  /\ pc' = "ics_written"
  /\ UNCHANGED <<data_vars, current_date, end_date, events, norm_vars,
                 weekday_vars, find_vars, parse_vars>>

IcsInit ==
  /\ pc = "ics_weeks"
  /\ menu_data \in MenuData
  /\ wi = 1
  /\ ri = 0
  /\ IcsIdle
  /\ FindIdle
  /\ NormIdle
  /\ WeekdayIdle
  /\ ParseIdle
  /\ HolidayIdle

IcsNext ==
  \/ ics_range
  \/ ics_next_week
  \/ ics_day
  \/ ics_days_done
  \/ ics_write

IcsSpec == IcsInit /\ [][IcsNext]_vars

(***************************************************************************)
(* find_menu_for_date(menu_data, target_date).                             *)
(***************************************************************************)
\* lines 191-194: the next range of week_menu; week_menu is returned if the
\* range holds the date
find_range ==
  /\ pc = "find"
  /\ wi <= Len(menu_data)
  /\ ri < Len(menu_data[wi].weeks)
  /\ ri' = ri + 1
  /\ IF range_contains(menu_data[wi].weeks[ri + 1], isoformat(target_date))
     THEN found' = menu_data[wi] /\ pc' = "found"
     ELSE UNCHANGED <<found, pc>>
  /\ UNCHANGED <<menu_data, wi, target_date, ics_vars, norm_vars, weekday_vars,
                 parse_vars>>

\* lines 191-192: the ranges of week_menu are gone through, the next week menu
find_next_week ==
  /\ pc = "find"
  /\ wi <= Len(menu_data)
  /\ ri = Len(menu_data[wi].weeks)
  /\ wi' = wi + 1
  /\ ri' = 0
  /\ UNCHANGED <<pc, menu_data, find_vars, ics_vars, norm_vars, weekday_vars,
                 parse_vars>>

\* line 195
find_none ==
  /\ pc = "find"
  /\ wi > Len(menu_data)
  /\ found' = None
  /\ pc' = "not_found"
  /\ UNCHANGED <<data_vars, target_date, ics_vars, norm_vars, weekday_vars,
                 parse_vars>>

FindInit ==
  /\ pc = "find"
  /\ menu_data \in MenuData
  /\ wi = 1
  /\ ri = 0
  /\ target_date \in TargetDates
  /\ found = None
  /\ IcsIdle
  /\ NormIdle
  /\ WeekdayIdle
  /\ ParseIdle
  /\ HolidayIdle

FindNext ==
  \/ find_range
  \/ find_next_week
  \/ find_none

FindSpec == FindInit /\ [][FindNext]_vars

(***************************************************************************)
(* generate_daily_message(target_date, menu_data, base_url,                *)
(* format_for_telegram, holiday_data) of daily_menu_message.py.            *)
(***************************************************************************)
generate_daily_message_call ==
  /\ pc = "generate"
  /\ message' = generate_daily_message(target_date, menu_data, telegram, holiday_data)
  /\ pc' = IF message'.raised THEN "generate_raised" ELSE "generated"
  /\ UNCHANGED <<holiday_data, telegram, menu_data, wi, ri, target_date, found,
                 daily_vars, regen_vars, ics_vars, norm_vars, weekday_vars,
                 base_vars>>

MessageInit ==
  /\ pc = "generate"
  /\ target_date \in DailyDates
  /\ menu_data \in DailyMenuData
  /\ holiday_data \in DailyHolidayData
  /\ telegram \in BOOLEAN
  /\ message = NoMessage
  /\ wi = 1
  /\ ri = 0
  /\ found = None
  /\ DailyIdle
  /\ RegenIdle
  /\ IcsIdle
  /\ NormIdle
  /\ WeekdayIdle
  /\ ParseIdle

MessageNext == generate_daily_message_call

MessageSpec == MessageInit /\ [][MessageNext]_vars

(***************************************************************************)
(* main of daily_menu_message.py.                                          *)
(***************************************************************************)
\* what main leaves alone
daily_frame ==
  <<wi, ri, found, ics_vars, regen_vars, norm_vars, weekday_vars, base_vars>>

\* lines 183-198: the arguments; a --date that strptime rejects ends the run
daily_args ==
  /\ pc = "daily_main"
  /\ IF date_arg_ok
     THEN /\ pc' = "load_menu"
          /\ UNCHANGED <<exit_status, stdout>>
     ELSE /\ stdout' = Append(stdout, "Error: Invalid date format")
          /\ exit_status' = "1"
          /\ pc' = "exited"
  /\ UNCHANGED <<date_arg_ok, output_file, menu_file, holiday_file, out_file,
                 message_vars, menu_data, target_date, daily_frame>>

\* lines 201 and 30-40: load_menu_data
daily_load_menu ==
  /\ pc = "load_menu"
  /\ IF menu_file.state = "ok"
     THEN /\ menu_data' = menu_file.data
          /\ pc' = "load_holidays"
          /\ UNCHANGED <<exit_status, stdout>>
     ELSE /\ stdout' = Append(stdout, "Error: Menu file")
          /\ exit_status' = "1"
          /\ pc' = "exited"
          /\ UNCHANGED menu_data
  /\ UNCHANGED <<date_arg_ok, output_file, menu_file, holiday_file, out_file,
                 message_vars, target_date, daily_frame>>

\* lines 204 and 42-52: load_holiday_data
daily_load_holidays ==
  /\ pc = "load_holidays"
  /\ IF holiday_file.state = "ok"
     THEN /\ holiday_data' = holiday_file.data
          /\ UNCHANGED stdout
     ELSE /\ holiday_data' = NoHolidayData
          /\ stdout' = Append(stdout, "Warning: Holiday file")
  /\ pc' = "check_closed"
  /\ UNCHANGED <<date_arg_ok, output_file, menu_file, holiday_file, out_file,
                 exit_status, telegram, message, menu_data, target_date,
                 daily_frame>>

\* lines 207-212: the school is closed, the run ends with status 2
daily_school_closed ==
  /\ pc = "check_closed"
  /\ is_school_closed(target_date, holiday_data)
  /\ stdout' = stdout \o <<"School is closed today", "Skipping message generation.">>
  /\ exit_status' = "2"
  /\ pc' = "exited"
  /\ UNCHANGED <<date_arg_ok, output_file, menu_file, holiday_file, out_file,
                 message_vars, menu_data, target_date, daily_frame>>

\* line 215: generate_daily_message; an IndexError it raises ends the run
\* with a traceback and status 1
daily_generate ==
  /\ pc = "check_closed"
  /\ ~is_school_closed(target_date, holiday_data)
  /\ message' = generate_daily_message(target_date, menu_data, telegram, holiday_data)
  /\ IF message'.raised
     THEN /\ exit_status' = "1"
          /\ pc' = "exited"
     ELSE /\ pc' = "output"
          /\ UNCHANGED exit_status
  /\ UNCHANGED <<date_arg_ok, output_file, menu_file, holiday_file, out_file,
                 stdout, holiday_data, telegram, menu_data, target_date,
                 daily_frame>>

\* lines 218-223: the message is written to the output file or printed
daily_output ==
  /\ pc = "output"
  /\ IF output_file # "None"
     THEN /\ out_file' = "message"
          /\ stdout' = Append(stdout, "Message written to")
     ELSE /\ stdout' = Append(stdout, "message")
          /\ UNCHANGED out_file
  /\ exit_status' = "0"
  /\ pc' = "exited"
  /\ UNCHANGED <<date_arg_ok, output_file, menu_file, holiday_file,
                 message_vars, menu_data, target_date, daily_frame>>

DailyInit ==
  /\ pc = "daily_main"
  /\ \/ /\ date_arg_ok = FALSE
        /\ menu_file = File("missing", <<>>)
        /\ holiday_file = File("missing", NoHolidayData)
        /\ target_date = date(2026, 9, 7)
     \/ /\ date_arg_ok = TRUE
        /\ menu_file \in {File("missing", <<>>), File("invalid", <<>>)}
        /\ holiday_file = File("missing", NoHolidayData)
        /\ target_date = date(2026, 9, 7)
     \/ /\ date_arg_ok = TRUE
        /\ menu_file \in DailyMenuFiles
        /\ holiday_file \in DailyHolidayFiles
        /\ target_date \in RunTargets
  /\ \E o \in OutputOptions : output_file = o[1] /\ out_file = o[2]
  /\ telegram \in BOOLEAN
  /\ menu_data = <<>>
  /\ holiday_data = NoHolidayData
  /\ message = NoMessage
  /\ exit_status = "none"
  /\ stdout = <<>>
  /\ wi = 1
  /\ ri = 0
  /\ found = None
  /\ RegenIdle
  /\ IcsIdle
  /\ NormIdle
  /\ WeekdayIdle
  /\ ParseIdle

DailyNext ==
  \/ daily_args
  \/ daily_load_menu
  \/ daily_load_holidays
  \/ daily_school_closed
  \/ daily_generate
  \/ daily_output

DailySpec == DailyInit /\ [][DailyNext]_vars

(***************************************************************************)
(* generate_ics_calendar(menu_data, output_path, holiday_data) of          *)
(* regenerate_html_ics.py.                                                 *)
(***************************************************************************)
\* what generate_ics_calendar leaves alone
regen_frame ==
  <<menu_data, holiday_data, now_date, novetats, telegram, message, daily_vars,
    find_vars, norm_vars, weekday_vars, base_vars>>

\* lines 37-59: the event of the next holiday entry
regen_holiday ==
  /\ pc = "regen_holidays"
  /\ holiday_data.loaded
  /\ holiday_data.has_holidays
  /\ hol_i < Len(holiday_data.holidays)
  /\ events' = Append(events, holiday_event(holiday_data.holidays[hol_i + 1]))
  /\ hol_i' = hol_i + 1
  /\ UNCHANGED <<pc, wi, ri, current_date, end_date, ics_file, regen_frame>>

\* lines 37-38: no holiday data, or its entries are gone through
regen_holidays_done ==
  /\ pc = "regen_holidays"
  /\ \/ ~holiday_data.loaded
     \/ ~holiday_data.has_holidays
     \/ hol_i = Len(holiday_data.holidays)
  /\ pc' = "regen_weeks"
  /\ UNCHANGED <<hol_i, wi, ri, ics_vars, regen_frame>>

\* lines 62-68: the next range of week_menu
regen_range ==
  /\ pc = "regen_weeks"
  /\ wi <= Len(menu_data)
  /\ ri < Len(menu_data[wi].weeks)
  /\ ri' = ri + 1
  /\ current_date' = fromisoformat(menu_data[wi].weeks[ri + 1].start)
  /\ end_date' = fromisoformat(menu_data[wi].weeks[ri + 1].end)
  /\ pc' = "regen_days"
  /\ UNCHANGED <<hol_i, wi, events, ics_file, regen_frame>>

\* lines 62-63: the ranges of week_menu are gone through
regen_next_week ==
  /\ pc = "regen_weeks"
  /\ wi <= Len(menu_data)
  /\ ri = Len(menu_data[wi].weeks)
  /\ wi' = wi + 1
  /\ ri' = 0
  /\ UNCHANGED <<pc, hol_i, ics_vars, regen_frame>>

\* lines 69-128: one iteration of the while loop
regen_day ==
  /\ pc = "regen_days"
  /\ DateLeq(current_date, end_date)
  /\ events' = regen_events_after_day(events, menu_data[wi], current_date, holiday_data)
  /\ current_date' = add_days(current_date, 1)
  /\ UNCHANGED <<pc, hol_i, wi, ri, end_date, ics_file, regen_frame>>

\* line 69: current_date is after end_date
regen_days_done ==
  /\ pc = "regen_days"
  /\ ~DateLeq(current_date, end_date)
  /\ pc' = "regen_weeks"
  /\ UNCHANGED <<hol_i, wi, ri, ics_vars, regen_frame>>

\* lines 130-132: the calendar is written
regen_write ==
  /\ pc = "regen_weeks"
  /\ wi > Len(menu_data)
  /\ ics_file' = events
  /\ pc' = "regen_written"
  /\ UNCHANGED <<hol_i, wi, ri, current_date, end_date, events, regen_frame>>

RegenInit ==
  /\ pc = "regen_holidays"
  /\ menu_data \in RegenMenuData
  /\ holiday_data \in RegenHolidayData
  /\ hol_i = 0
  /\ now_date = date(2025, 10, 6)
  /\ novetats = NoNovetats
  /\ wi = 1
  /\ ri = 0
  /\ telegram = FALSE
  /\ message = NoMessage
  /\ DailyIdle
  /\ IcsIdle
  /\ FindIdle
  /\ NormIdle
  /\ WeekdayIdle
  /\ ParseIdle

RegenNext ==
  \/ regen_holiday
  \/ regen_holidays_done
  \/ regen_range
  \/ regen_next_week
  \/ regen_day
  \/ regen_days_done
  \/ regen_write

RegenSpec == RegenInit /\ [][RegenNext]_vars

(***************************************************************************)
(* generate_novetats_html(holiday_data) of regenerate_html_ics.py.         *)
(***************************************************************************)
\* lines 210-272: the call
generate_novetats_html_call ==
  /\ pc = "novetats"
  /\ novetats' = generate_novetats_html(holiday_data, now_date)
  /\ pc' = "novetats_done"
  /\ UNCHANGED <<hol_i, now_date, menu_data, wi, ri, ics_vars, holiday_data,
                 telegram, message, daily_vars, find_vars, norm_vars,
                 weekday_vars, base_vars>>

NovetatsInit ==
  /\ pc = "novetats"
  /\ holiday_data \in NovetatsHolidayData
  /\ now_date \in NowDates
  /\ novetats = NoNovetats
  /\ hol_i = 0
  /\ telegram = FALSE
  /\ message = NoMessage
  /\ DataIdle
  /\ DailyIdle
  /\ IcsIdle
  /\ FindIdle
  /\ NormIdle
  /\ WeekdayIdle
  /\ ParseIdle

NovetatsNext == generate_novetats_html_call

NovetatsSpec == NovetatsInit /\ [][NovetatsNext]_vars

(***************************************************************************)
(* Properties.                                                             *)
(***************************************************************************)
\* the written range p gives valid dates when its dates are put in year y
RangeValidIn(y, p) ==
  LET s == start_of(y, int(p.mm), int(p.d1), int(p.d2))
      e == end_of(y, int(p.mm), int(p.d2))
  IN  ValidDate(s.year, s.month, s.day) /\ ValidDate(e.year, e.month, e.day)

\* valid in every year: valid in a year that is not a leap year
AlwaysValid(p) == RangeValidIn(2027, p)

\* valid in no year: invalid even in a leap year
NeverValid(p) == ~RangeValidIn(2028, p)

Finished == pc \in {"pw_returned", "pw_raised"}

\* C1: every emitted end date is (Y, MM, D2) with Y the anchor year the
\* caller passed if MM >= 7 and that year plus one otherwise, for every
\* match of the text, the first and the later ones.
C1_EndYearFromAnchor ==
  pc = "pw_returned" =>
    \A i \in 1..Len(outcome.value) :
      LET month == int(matches[i].month)
          Y == IF month >= 7 THEN current_year ELSE current_year + 1
      IN  outcome.value[i].end = isoformat(date(Y, month, int(matches[i].end_day)))

C3_StartNotAfterEnd ==
  \A i \in 1..Len(result) :
    /\ StrLeq(result[i].start, result[i].end)
    /\ DateLeq(fromisoformat(result[i].start), fromisoformat(result[i].end))

C3_CrossYearRecord ==
  /\ pc = "pw_returned"
  /\ \E i \in 1..Len(outcome.value) :
       /\ fromisoformat(outcome.value[i].start).month = 12
       /\ fromisoformat(outcome.value[i].end).month = 1
  /\ \E i \in 1..Len(outcome.value) :
       /\ fromisoformat(outcome.value[i].start).month = 6
       /\ fromisoformat(outcome.value[i].end).month = 7

\* C4: the start date of every record is (effective_year, month, start_day)
\* if start_day <= end_day, and lies in the month before (effective_year,
\* month) otherwise, where effective_year is the anchor year for month >= 7
\* and the anchor year plus one otherwise.
C4_StartFromEffectiveYear ==
  pc = "pw_returned" =>
    \A i \in 1..Len(outcome.value) :
      LET month == int(matches[i].month)
          start_day == int(matches[i].start_day)
          end_day == int(matches[i].end_day)
          Y == IF month >= 7 THEN current_year ELSE current_year + 1
          expected ==
            IF start_day <= end_day THEN date(Y, month, start_day)
            ELSE IF month = 1 THEN date(Y - 1, 12, start_day)
            ELSE date(Y, month - 1, start_day)
      IN  outcome.value[i].start = isoformat(expected)

\* C5: a call on a text without a written range (the empty text or text the
\* pattern does not match) returns the empty list and does not raise.
C5_NoMatchEmpty ==
  (Finished /\ Written(text_parts) = <<>>) =>
    (pc = "pw_returned" /\ outcome = [raised |-> FALSE, value |-> <<>>])

C5_NearMissText ==
  /\ pc = "pw_returned"
  /\ Len(text_parts) = 2
  /\ Written(text_parts) = <<>>
  /\ text_parts[1] # text_parts[2]

HasInvalidRow(n) ==
  \E i \in 1..n :
    LET w == Written(cell_parts(with_content(table[i])))
    IN  \E j \in 1..Len(w) : NeverValid(w[j])

Outputs == {"menu.json", "menu.ics", "index.html", "sobre.html"}

\* C7: when a week cell of the table holds a range that forms an invalid
\* date, the run of main writes none of its outputs and ends aborted: no
\* list of week records is returned by parse_menu.
C7_AbortWritesNothing ==
  /\ pc = "aborted" => (files \cap Outputs = {} /\ menus = <<>> /\ parsed_menu = <<>>)
  /\ HasInvalidRow(Len(table)) =>
       (files \cap Outputs = {} /\ parsed_menu = <<>>
        /\ pc \notin {"save", "ics", "html", "done"})
  /\ HasInvalidRow(r) => pc \in {"pw_loop", "pw_raised", "aborted"}

C7_AbortedAfterValidRow ==
  /\ pc = "aborted"
  /\ r = 2
  /\ ~HasInvalidRow(1)
  /\ Len(table[1]) > 0
  /\ html_output
  /\ files = {}

\* C8: the anchor year parse_menu passes to parse_weeks is the year in
\* which the first term of the academic year starts, whenever the
\* conversion is run.
C8_AnchorIsAcademicYear ==
  pc \in {"pw_loop", "pw_returned", "pw_raised"} => current_year = academic_year

\* a call on the input of the first call ends as the first call ended
SameInputSameResult ==
  (Finished /\ calls > 1 /\ <<text_parts, current_year>> = first_in) =>
    outcome = first_out

\* C9: parse_weeks reads and writes nothing but its own frame: while a call
\* runs, the text and the caller's year stay as they are, and a call on an
\* input ends as an earlier call on that input ended, whatever calls were
\* made in between.
C9_PureFunction ==
  /\ []SameInputSameResult
  /\ [][pc = "pw_loop" =>
          (weeks_str' = weeks_str /\ current_year' = current_year
           /\ text_parts' = text_parts)]_vars

C9_RepeatedCall ==
  /\ pc = "pw_returned"
  /\ calls = 3
  /\ <<text_parts, current_year>> = first_in
  /\ Len(outcome.value) = 2
  /\ year # current_year

\* C10: every call of parse_weeks ends, by returning or by raising, and
\* each iteration of its loop takes the next match.
C10_Terminates ==
  /\ (pc = "pw_loop") ~> Finished
  /\ [][(pc = "pw_loop" /\ pc' = "pw_loop") =>
          (k' = k + 1 /\ k' <= Len(matches))]_vars

C10_LoopRanTwice ==
  /\ pc = "pw_returned"
  /\ k = 2
  /\ Len(matches) = 2


\* a string of the form YYYY-MM-DD, all digits but the two dashes
CanonicalIso(s) ==
  /\ Len(s) = 10
  /\ s[5] = "-"
  /\ s[8] = "-"
  /\ \A n \in {1, 2, 3, 4, 6, 7, 9, 10} : IsDigit(s[n])
  /\ ValidDate(int(SubSeq(s, 1, 4)), int(SubSeq(s, 6, 7)), int(SubSeq(s, 9, 10)))
  /\ isoformat(fromisoformat(s)) = s

\* C11: every start and every end string parse_weeks returns is a canonical
\* YYYY-MM-DD date with zero-padded month and day, and parsing it back to a
\* date and formatting that date again gives the identical string.
C11_IsoRoundTrip ==
  pc = "pw_returned" =>
    \A i \in 1..Len(outcome.value) :
      /\ CanonicalIso(outcome.value[i].start)
      /\ CanonicalIso(outcome.value[i].end)

\* a call returned a record whose days and end month have a single digit
C11_SingleDigitRecord ==
  /\ pc = "pw_returned"
  /\ \E i \in 1..Len(outcome.value) :
       /\ Len(matches[i].start_day) = 1
       /\ Len(matches[i].end_day) = 1
       /\ int(matches[i].month) < 10

\* the characters the claims call dashes and whitespace
DashOrSpace == {"-"} \cup Whitespace

\* C16: for an input whose form without the dashes and whitespace at its
\* ends is non-empty, normalize_text returns that form with its first
\* character in upper case and the others in lower case, accented letters
\* staying the same accented letters; for an input that is empty or has
\* only dashes and whitespace it returns the empty string.
C16_StrippedCapitalized ==
  pc = "normalized" =>
    LET t == strip(text_in, DashOrSpace)
    IN  IF Len(t) = 0
        THEN text_out = <<>>
        ELSE text_out = upper(SubSeq(t, 1, 1)) \o lower(SubSeq(t, 2, Len(t)))

\* C17: for every input, also one that mixes dashes, spaces and other
\* whitespace at its ends, the result of normalize_text neither begins nor
\* ends with a dash or a whitespace character.
C17_NoDashOrSpaceAtEnds ==
  (pc = "normalized" /\ Len(text_out) > 0) =>
    /\ text_out[1] \notin DashOrSpace
    /\ text_out[Len(text_out)] \notin DashOrSpace

\* the ordinals strictly between two dates are all Saturdays and Sundays
OnlyWeekendBetween(a, b) ==
  \A n \in (toordinal(a) + 1)..(toordinal(b) - 1) : (n + 6) % 7 >= 5

\* C19: for every input date, of any weekday, get_previous_weekday returns
\* a Monday-Friday date strictly before the input, and the latest such date.
C19_PreviousIsWeekday ==
  pc = "previous_returned" =>
    /\ weekday(weekday_out) < 5
    /\ toordinal(weekday_out) < toordinal(date_obj)
    /\ OnlyWeekendBetween(weekday_out, date_obj)

\* C20: for every input date, of any weekday, get_next_weekday returns a
\* Monday-Friday date strictly after the input, and the earliest such date.
C20_NextIsWeekday ==
  pc = "next_returned" =>
    /\ weekday(weekday_out) < 5
    /\ toordinal(weekday_out) > toordinal(date_obj)
    /\ OnlyWeekendBetween(date_obj, weekday_out)

\* the data rows whose week cell has kids, in order: the rows parse_menu
\* makes a record of
RECURSIVE KeptRows(_)
KeptRows(n) ==
  IF n = 0 THEN <<>>
  ELSE IF Len(table[n]) > 0 THEN Append(KeptRows(n - 1), n) ELSE KeptRows(n - 1)

\* the list items of the first n kids of a cell, in document order
RECURSIVE ListItems(_, _)
ListItems(cell, n) ==
  IF n = 0 THEN <<>>
  ELSE ListItems(cell, n - 1)
       \o (IF cell[n].type = "list" THEN cell[n].items ELSE <<>>)

\* the name written in the header cell of column i, normalized
ColumnName(i) == normalize_text(header_row[i][1].content)

\* the cell of column i in the row the j-th record was made of
RecordCell(j, i) == day_cells[KeptRows(Len(table))[j]][i]

\* C12: every day entry of every week record comes from a cell of its
\* column: 'raw' is the list of all normalized list items of the cell in
\* document order, 'entrant' is the first, 'main' the second if there are
\* two and None otherwise, 'dessert' the third if there are three and None
\* otherwise; later items are in 'raw' only.
C12_EntryFromCellItems ==
  pc = "save" =>
    \A j \in 1..Len(parsed_menu) :
      \A name \in DOMAIN parsed_menu[j].days :
        LET e == parsed_menu[j].days[name]
        IN  \E i \in 1..Len(header_row) :
              LET items == ListItems(RecordCell(j, i), Len(RecordCell(j, i)))
              IN  /\ Len(header_row[i]) > 0
                  /\ ColumnName(i) = name
                  /\ Len(items) >= 1
                  /\ Len(e.raw) = Len(items)
                  /\ \A n \in 1..Len(items) : e.raw[n] = normalize_text(items[n])
                  /\ e.entrant = e.raw[1]
                  /\ e.main = (IF Len(items) >= 2 THEN e.raw[2] ELSE None)
                  /\ e.dessert = (IF Len(items) >= 3 THEN e.raw[3] ELSE None)

\* parse_menu returned a record with an entry of four items and one of one
C12_FourItemsAndOne ==
  /\ pc = "save"
  /\ \E j \in 1..Len(parsed_menu) :
       \E a, b \in DOMAIN parsed_menu[j].days :
         /\ Len(parsed_menu[j].days[a].raw) = 4
         /\ parsed_menu[j].days[a].dessert # None
         /\ Len(parsed_menu[j].days[b].raw) = 1
         /\ parsed_menu[j].days[b].main = None

\* the cell has a kid of type list with at least one item
HasListItem(cell) ==
  \E n \in 1..Len(cell) : cell[n].type = "list" /\ Len(cell[n].items) > 0

\* the header cell of column i has kids
HeaderNonEmpty(i) == Len(header_row[i]) > 0

\* the header cell of column i has a name left after normalization
HeaderNamed(i) == Len(header_row[i]) > 0 /\ Len(ColumnName(i)) > 0

\* C13 as stated: in each week record a weekday name is a key of 'days' if
\* and only if the header cell of its column is non-empty and the row's
\* cell in that column has at least one list item.
C13_KeyIffHeaderAndItems ==
  pc = "save" =>
    \A j \in 1..Len(parsed_menu) :
      /\ \A i \in 1..Len(header_row) :
           (HeaderNonEmpty(i) /\ HasListItem(RecordCell(j, i)))
             => ColumnName(i) \in DOMAIN parsed_menu[j].days
      /\ \A name \in DOMAIN parsed_menu[j].days :
           \E i \in 1..Len(header_row) :
             /\ HeaderNonEmpty(i)
             /\ ColumnName(i) = name
             /\ HasListItem(RecordCell(j, i))

\* C13 amended: in each week record a weekday name is a key of 'days' if
\* and only if the header cell of its column holds a name that is not
\* empty after normalization and the row's cell in that column has at least
\* one list item.
C13_KeyIffNameAndItems ==
  pc = "save" =>
    \A j \in 1..Len(parsed_menu) :
      /\ \A i \in 1..Len(header_row) :
           (HeaderNamed(i) /\ HasListItem(RecordCell(j, i)))
             => ColumnName(i) \in DOMAIN parsed_menu[j].days
      /\ \A name \in DOMAIN parsed_menu[j].days :
           \E i \in 1..Len(header_row) :
             /\ HeaderNamed(i)
             /\ ColumnName(i) = name
             /\ HasListItem(RecordCell(j, i))

\* parse_menu returned a record with a key for one column and none for a
\* column whose header holds a dash, though its cell has list items
C13_DashHeaderNoKey ==
  /\ pc = "save"
  /\ Len(parsed_menu) >= 1
  /\ Cardinality(DOMAIN parsed_menu[1].days) = 1
  /\ \E i \in 1..Len(header_row) :
       /\ HeaderNonEmpty(i)
       /\ ~HeaderNamed(i)
       /\ HasListItem(RecordCell(1, i))

\* the ordinal n is a Monday-Friday whose weekday name is a key of the
\* 'days' of the week menu
MenuDay(week_menu, n) ==
  /\ (n + 6) % 7 < 5
  /\ day_names[((n + 6) % 7) + 1] \in DOMAIN week_menu.days

\* the ordinals lo..hi that are menu days of the week menu, ascending
RECURSIVE MenuDaysBetween(_, _, _)
MenuDaysBetween(week_menu, lo, hi) ==
  IF lo > hi THEN <<>>
  ELSE (IF MenuDay(week_menu, lo) THEN <<lo>> ELSE <<>>)
       \o MenuDaysBetween(week_menu, lo + 1, hi)

\* the menu days of the first n ranges of the week menu
RECURSIVE MenuDaysOfRanges(_, _)
MenuDaysOfRanges(week_menu, n) ==
  IF n = 0 THEN <<>>
  ELSE MenuDaysOfRanges(week_menu, n - 1)
       \o MenuDaysBetween(week_menu,
                           toordinal(fromisoformat(week_menu.weeks[n].start)),
                           toordinal(fromisoformat(week_menu.weeks[n].end)))

\* the menu days of the first n week menus of menu_data
RECURSIVE MenuDaysOfWeeks(_)
MenuDaysOfWeeks(n) ==
  IF n = 0 THEN <<>>
  ELSE MenuDaysOfWeeks(n - 1)
       \o MenuDaysOfRanges(menu_data[n], Len(menu_data[n].weeks))

\* C14: the calendar written has exactly one event for each date of each
\* week range, both ends included, that is a Monday-Friday whose weekday
\* name is a key of the week's 'days', and no other event; no event is on a
\* Saturday or Sunday, and empty menu data gives a calendar without events.
C14_OneEventPerMenuDay ==
  pc = "ics_written" =>
    LET expected == MenuDaysOfWeeks(Len(menu_data))
    IN  /\ Len(ics_file) = Len(expected)
        /\ \A n \in 1..Len(expected) : toordinal(ics_file[n].date) = expected[n]
        /\ \A n \in 1..Len(ics_file) : weekday(ics_file[n].date) \notin {5, 6}
        /\ (menu_data = <<>> => ics_file = <<>>)

\* a calendar was written for a range from Sunday to Saturday of a week
\* whose 'days' hold Monday and Friday, and for a range from Tuesday to
\* Sunday over the turn of the year: two events and one
C14_FullWeekTwoEvents ==
  /\ pc = "ics_written"
  /\ menu_data = <<[weeks |-> <<FullWeek, YearEndWeek>>, days |-> MondayFriday]>>
  /\ Len(ics_file) = 3
  /\ ics_file[3].date = date(2027, 1, 1)

\* the courses of a day that have a text, each under its label
LabelledCourses(day_menu) ==
  (IF day_menu.entrant # None /\ day_menu.entrant # <<>>
   THEN <<[label |-> "Primer:", text |-> day_menu.entrant]>> ELSE <<>>)
  \o (IF day_menu.main # None /\ day_menu.main # <<>>
      THEN <<[label |-> "Segon:", text |-> day_menu.main]>> ELSE <<>>)
  \o (IF day_menu.dessert # None /\ day_menu.dessert # <<>>
      THEN <<[label |-> "Postre:", text |-> day_menu.dessert]>> ELSE <<>>)

\* C15: every menu event of the calendar labels the first course 'Primer:',
\* the second course 'Segon:' and the dessert 'Postre:'.
C15_LabelsPrimerSegonPostre ==
  pc = "ics_written" =>
    \A n \in 1..Len(ics_file) :
      \E w \in 1..Len(menu_data) :
        /\ ics_file[n].summary \in DOMAIN menu_data[w].days
        /\ ics_file[n].description = LabelledCourses(menu_data[w].days[ics_file[n].summary])

\* the range of menu_data[w].weeks[n] holds the date d, as dates
HoldsDate(w, n, d) ==
  /\ toordinal(fromisoformat(menu_data[w].weeks[n].start)) <= toordinal(d)
  /\ toordinal(d) <= toordinal(fromisoformat(menu_data[w].weeks[n].end))

\* a range of week menu w holds the date d
WeekHoldsDate(w, d) == \E n \in 1..Len(menu_data[w].weeks) : HoldsDate(w, n, d)

\* C18: find_menu_for_date returns a week menu with a range that holds the
\* target date, the first such week menu in the order of menu_data, and
\* returns None if and only if no range of any week menu holds the date.
C18_FirstWeekHoldingDate ==
  /\ pc = "found" =>
       \E w \in 1..Len(menu_data) :
         /\ found = menu_data[w]
         /\ WeekHoldsDate(w, target_date)
         /\ \A v \in 1..(w - 1) : ~WeekHoldsDate(v, target_date)
  /\ pc = "not_found" =>
       /\ found = None
       /\ \A w \in 1..Len(menu_data) : ~WeekHoldsDate(w, target_date)
  /\ (pc \in {"found", "not_found"}
       /\ \A w \in 1..Len(menu_data) : ~WeekHoldsDate(w, target_date))
       => found = None

\* the date is held by ranges of two week menus that differ, the second
\* range of the first of them, and that one is returned
C18_TwoWeeksHoldDate ==
  /\ pc = "found"
  /\ Len(menu_data) = 2
  /\ menu_data[1] # menu_data[2]
  /\ Len(menu_data[1].weeks) = 2
  /\ ~HoldsDate(1, 1, target_date)
  /\ WeekHoldsDate(1, target_date)
  /\ WeekHoldsDate(2, target_date)
  /\ found = menu_data[1]

\* every part of the text is a written range that is a valid date
WholeValidMatches(parts) ==
  \A i \in 1..Len(parts) : parts[i].m /\ AlwaysValid(parts[i])

\* C26: for a text made of two texts a and b of whole valid matches, joined
\* by a space, and any anchor year Y, parse_weeks(a + ' ' + b, Y) is
\* parse_weeks(a, Y) followed by parse_weeks(b, Y): the range of a match
\* does not depend on the matches before it.
C26_DistributesOverConcatenation ==
  (pc = "pw_returned" /\ WholeValidMatches(text_parts)) =>
    \A n \in 1..(Len(text_parts) - 1) :
      LET a == parse_weeks(Render(SubSeq(text_parts, 1, n)), current_year)
          b == parse_weeks(Render(SubSeq(text_parts, n + 1, Len(text_parts))),
                           current_year)
      IN  /\ ~a.raised
          /\ ~b.raised
          /\ outcome.value = a.value \o b.value

\* C27: for every input s, also one that mixes dashes, spaces and other
\* whitespace at its ends, normalize_text(normalize_text(s)) equals
\* normalize_text(s).
C27_Idempotent ==
  pc = "normalized" => normalize_text(text_out) = text_out

\* the parts of the week text of data row n
RowParts(n) == cell_parts(with_content(table[n]))

\* C21: parse_menu returns exactly one week record for each data row whose
\* first cell has at least one child, in the order of the rows, and none for
\* a row whose first cell is empty; a row whose week text has no match gives
\* a record with an empty 'weeks' list.
C21_OneRecordPerWeekRow ==
  pc = "save" =>
    LET kept == KeptRows(Len(table))
    IN  /\ Len(parsed_menu) = Cardinality({n \in 1..Len(table) : table[n] # <<>>})
        /\ Len(parsed_menu) = Len(kept)
        /\ \A j \in 1..Len(kept) :
             /\ Len(parsed_menu[j].weeks) = Len(Written(RowParts(kept[j])))
             /\ parsed_menu[j].weeks = parse_weeks(Render(RowParts(kept[j])), today.year).value
             /\ Written(RowParts(kept[j])) = <<>> => parsed_menu[j].weeks = <<>>

\* parse_menu returned one record, without weeks, for a table whose first
\* data row has an empty first cell and whose second has text without a match
C21_SkippedRowAndNoMatchRow ==
  /\ pc = "save"
  /\ Len(table) = 2
  /\ table[1] = <<>>
  /\ table[2] = <<Kid(<<Other(<<"x">>)>>)>>
  /\ Len(parsed_menu) = 1
  /\ parsed_menu[1].weeks = <<>>

\* the entries of holiday_data['holidays'] whose date is the target date
HolidaysOfTarget ==
  IF holiday_data.loaded /\ holiday_data.has_holidays
  THEN {n \in 1..Len(holiday_data.holidays) :
          fromisoformat(holiday_data.holidays[n].date) = target_date}
  ELSE {}

\* the first of them
FirstHolidayOfTarget ==
  holiday_data.holidays[CHOOSE n \in HolidaysOfTarget : \A m \in HolidaysOfTarget : n <= m]

\* C23: whenever the target date is the date of an entry of
\* holiday_data['holidays'], generate_daily_message returns the holiday
\* message of the first such entry, whether or not a week range holds the
\* date and whether or not the weekday has a menu.
C23_HolidayMessageFirst ==
  (pc \in {"generated", "generate_raised"} /\ HolidaysOfTarget # {}) =>
    /\ pc = "generated"
    /\ message.kind = "holiday"
    /\ message.emoji = type_emoji(FirstHolidayOfTarget.type)
    /\ message.holiday_name =
         (IF FirstHolidayOfTarget.name = Absent THEN "Festiu"
          ELSE FirstHolidayOfTarget.name)
    /\ message.description =
         (IF FirstHolidayOfTarget.description = Absent THEN ""
          ELSE FirstHolidayOfTarget.description)

\* the entries of the holiday file whose date is the target date
FileHolidaysOfTarget ==
  IF holiday_file.state = "ok" /\ holiday_file.data.has_holidays
  THEN {n \in 1..Len(holiday_file.data.holidays) :
          fromisoformat(holiday_file.data.holidays[n].date) = target_date}
  ELSE {}

\* the run gets as far as the check of the holidays
ReachesHolidayCheck == date_arg_ok /\ menu_file.state = "ok"

\* the target date matches an entry whose school_closed is true
MatchesClosedEntry ==
  \E n \in FileHolidaysOfTarget : holiday_file.data.holidays[n].school_closed = "true"

\* the first entry the target date matches has school_closed true
FirstMatchClosed ==
  \E n \in FileHolidaysOfTarget :
    /\ \A m \in FileHolidaysOfTarget : n <= m
    /\ holiday_file.data.holidays[n].school_closed = "true"

\* the run did not call generate_daily_message, printed no message and left
\* the output file as it was, and if it ended, it ended with status 2
StoppedBeforeMessage ==
  /\ message = NoMessage
  /\ out_file \in {"absent", "old"}
  /\ \A n \in 1..Len(stdout) : stdout[n] \notin {"message", "Message written to"}
  /\ pc \notin {"output"}
  /\ pc = "exited" => exit_status = "2"

\* the holiday did not stop the run: it ended after calling
\* generate_daily_message, with a status other than 2
WentOnToMessage ==
  pc = "exited" => (exit_status # "2" /\ message # NoMessage)

\* C22 as stated: when the target date matches a holiday entry whose
\* school_closed is true, the run ends with status 2 before
\* generate_daily_message is called, prints no message and leaves the
\* output file alone; a matching holiday whose school_closed is false or
\* absent does not stop the run.
C22_ClosedEntryStopsRun ==
  ReachesHolidayCheck =>
    /\ MatchesClosedEntry => StoppedBeforeMessage
    /\ (FileHolidaysOfTarget # {} /\ ~MatchesClosedEntry) => WentOnToMessage

\* C22 amended: when the first holiday entry of the target date has
\* school_closed true, the run ends with status 2 before
\* generate_daily_message is called, prints no message and leaves the
\* output file alone; when the first entry of the date has school_closed
\* false or absent, the run goes on to generate_daily_message.
C22_FirstEntryClosedStopsRun ==
  ReachesHolidayCheck =>
    /\ FirstMatchClosed => StoppedBeforeMessage
    /\ (FileHolidaysOfTarget # {} /\ ~FirstMatchClosed) => WentOnToMessage

\* a run with an output file that holds older content ended with status 2
\* on a date whose first entry has school_closed true and whose second has
\* school_closed false
C22_ClosedRunEnded ==
  /\ pc = "exited"
  /\ exit_status = "2"
  /\ output_file = "out.txt"
  /\ out_file = "old"
  /\ Cardinality(FileHolidaysOfTarget) = 2
  /\ ~(\A n \in FileHolidaysOfTarget : holiday_file.data.holidays[n].school_closed = "true")

\* the holiday entries given to generate_ics_calendar
HolidayEntries ==
  IF holiday_data.loaded /\ holiday_data.has_holidays
  THEN holiday_data.holidays ELSE <<>>

\* the events of the file of a category
EventsOf(categories) == SelectSeq(ics_file, LAMBDA e : e.category \in categories)

\* C24: the calendar regenerate_html_ics.generate_ics_calendar writes has
\* no menu event on a date that is the date of a holiday entry, whatever
\* the entry's school_closed, and has one all-day holiday event for each
\* holiday entry.
C24_NoMenuEventOnHoliday ==
  pc = "regen_written" =>
    LET holiday_events == SelectSeq(ics_file, LAMBDA e : e.all_day)
    IN  /\ \A n \in 1..Len(ics_file) :
             ics_file[n].category = "menu" =>
               /\ ~ics_file[n].all_day
               /\ \A h \in 1..Len(HolidayEntries) :
                    fromisoformat(HolidayEntries[h].date) # ics_file[n].date
        /\ Len(holiday_events) = Len(HolidayEntries)
        /\ \A h \in 1..Len(HolidayEntries) :
             /\ holiday_events[h].date = fromisoformat(HolidayEntries[h].date)
             /\ holiday_events[h].category = HolidayEntries[h].type
             /\ holiday_events[h].summary[2] = HolidayEntries[h].name

\* a calendar was written for a week with menus for Monday and Friday and
\* one holiday entry, of that Monday, whose school_closed is false: the
\* holiday event and the menu event of Friday
C24_MondayHolidayFridayMenu ==
  /\ pc = "regen_written"
  /\ menu_data = <<[weeks |-> <<WorkWeek>>, days |-> MondayFriday]>>
  /\ Len(HolidayEntries) = 1
  /\ HolidayEntries[1].date = isoformat(date(2026, 9, 7))
  /\ HolidayEntries[1].school_closed = "false"
  /\ Len(ics_file) = 2
  /\ ics_file[1].all_day
  /\ ics_file[2].date = date(2026, 9, 11)

\* the date a rendered item shows (DD/MM/YYYY)
ShownDate(div) ==
  date(int(SubSeq(div.date_text, 7, 10)), int(SubSeq(div.date_text, 4, 5)),
       int(SubSeq(div.date_text, 1, 2)))

\* the dates of the candidates of generate_novetats_html, as a sequence: the
\* announcement and the entries that are upcoming school holidays
CandidateDates ==
  <<date(2025, 10, 8)>>
  \o (IF holiday_data.loaded /\ holiday_data.has_holidays
      THEN LET upcoming == SelectSeq(holiday_data.holidays,
                                     LAMBDA h : is_upcoming(h, now_date, 5))
           IN  [n \in 1..Len(upcoming) |-> fromisoformat(upcoming[n].date)]
      ELSE <<>>)

\* how many dates of a sequence are x or later
CountFrom(dates, x) == Cardinality({n \in 1..Len(dates) : DateLeq(x, dates[n])})

\* C25: generate_novetats_html never returns the empty string; it renders
\* at most 3 items, in descending order of date, and they are the 3 latest
\* of the announcement of 2025-10-08 and the upcoming school holidays.
C25_ThreeLatestDescending ==
  pc = "novetats_done" =>
    LET shown == [n \in 1..Len(novetats.divs) |-> ShownDate(novetats.divs[n])]
    IN  /\ novetats.returned
        /\ ~novetats.empty
        /\ Len(shown) >= 1
        /\ Len(shown) <= 3
        /\ Len(shown) = (IF Len(CandidateDates) < 3 THEN Len(CandidateDates) ELSE 3)
        /\ \A n \in 1..(Len(shown) - 1) : DateLeq(shown[n + 1], shown[n])
        /\ \A c \in 1..Len(CandidateDates) :
             CountFrom(shown, CandidateDates[c])
               = (IF CountFrom(CandidateDates, CandidateDates[c]) < 3
                  THEN CountFrom(CandidateDates, CandidateDates[c]) ELSE 3)
        /\ \A n \in 1..Len(shown) : \E c \in 1..Len(CandidateDates) :
             CandidateDates[c] = shown[n]

\* on 2025-10-06 with school holidays on the 7th, 9th and 10th, given in
\* that order, the 10th, the 9th and the announcement were rendered and the
\* 7th was left out
C25_FourCandidatesThreeShown ==
  /\ pc = "novetats_done"
  /\ now_date = date(2025, 10, 6)
  /\ Len(CandidateDates) = 4
  /\ CandidateDates[2] = date(2025, 10, 7)
  /\ Len(novetats.divs) = 3
  /\ ShownDate(novetats.divs[1]) = date(2025, 10, 10)
  /\ ShownDate(novetats.divs[2]) = date(2025, 10, 9)
  /\ novetats.divs[3].css_class[2] = "info"

====
